---- MODULE Spec2Model ----
(***************************************************************************)
(* manyhow: the entry points function / attribute / derive, their macro    *)
(* forms function! / attribute! / derive!, the Emitter and the Error       *)
(* collection.  One invocation of one entry point is followed from the     *)
(* call, through the steps of the user supplied handler (the body), to the *)
(* token sequence handed back to the compiler.                             *)
(*                                                                         *)
(* A token is a pair <<tag, n>>.  A diagnostic value is a record           *)
(* [k, id, elems]: k = "msg" is an ErrorMessage, "silent" a SilentError,   *)
(* "syn" a syn2::Error and "error" an Error holding the boxed values elems.*)
(***************************************************************************)
EXTENDS Integers, Sequences, FiniteSets, TLC

VARIABLES
    kind,       \* "function" | "attribute" | "derive" ("none" before the call)
    macro,      \* TRUE for function! / attribute! / derive!
    as_dummy,   \* input_as_dummy / item_as_dummy / #[as_dummy]
    shape,      \* which optional parameters the handler declares
    input,      \* tokens of `input` (function, attribute)
    item,       \* tokens of `item` (attribute, derive)
    parsed,     \* macro forms: what manyhow_parse returned for each input
    pc,         \* "idle" | "body" | "done" ("rejected": no impl for the handler)
    dummy,      \* the fallback buffer handed to the body
    emitter,    \* Emitter.0
    nextId,     \* identity of the next diagnostic value the body creates
    dummyOps,   \* number of writes of the body to the fallback buffer
    calls,      \* history of the Emitter calls made by the body
    ret,        \* value returned by the body
    output,     \* the token sequence returned by the entry point
    converted,  \* a handler result and what MacroOutput::convert makes of it
    collection, \* an Error under construction and the push / extend calls
    message,    \* an ErrorMessage and the string Display writes for it
    ranged,     \* a token sequence and its span range
    manyhow,    \* one use of #[manyhow(..)] and the tokens it expands to
    sites,      \* two use sites of function() expanded side by side
    early,      \* a function whose statements are ensure! / bail!
    chained,    \* a Result taken through context / context_with, or a join
    held        \* an Emitter and the calls made on it

auxvars == <<early, chained, held>>

libvars == <<converted, collection, message, ranged, manyhow, sites, auxvars>>

vars == <<kind, macro, as_dummy, shape, input, item, parsed, pc, dummy,
          emitter, nextId, dummyOps, calls, ret, output, libvars>>

\* ------------------------------------------------------------------ bounds
MaxInput == 2
MaxItem == 2
MaxEmitterCalls == 4
MaxDummyOps == 1
MaxNest == 2       \* Results nested inside the Ok of a Result
MaxElems == 3      \* diagnostics an Error is built from
MaxErrorCalls == 3 \* push / extend calls on one Error
MaxMsg == 2        \* characters of the primary message
MaxText == 3       \* characters of the attachments of one message
MaxAttachments == 2
MaxTokens == 4     \* tokens of a stream whose span range is taken
MaxSpan == 3       \* source positions the tokens of a stream come from
MaxFlags == 2      \* tokens between the parentheses of #[manyhow(..)]
MaxBelow == 2      \* attributes between #[manyhow] and the item
MaxSiteEmits == 1  \* emit calls of the body at one of two use sites
MaxStmts == 2      \* statements executed by a function using ensure! / bail!
MaxContext == 2    \* context / context_with / join calls made in a chain
MaxHeldCalls == 4  \* calls made on an Emitter that is driven directly
MaxIter == 2       \* items of an iterator handed to Emitter::extend

\* ------------------------------------------------------------------ tokens
InputTokens(n) == [i \in 1..n |-> <<"input", i>>]
ItemTokens(n) == [i \in 1..n |-> <<"item", i>>]
\* tokens the body returns on success
OutTokens == << <<"output", 1>>, <<"output", 2>> >>
\* tokens the body assigns to (`*dummy = quote!{..}`) or appends to the buffer
NewDummy == << <<"new_dummy", 1>> >>
MoreDummy == << <<"more_dummy", 1>> >>

RECURSIVE Concat(_)
Concat(ss) == IF ss = <<>> THEN <<>> ELSE Head(ss) \o Concat(Tail(ss))

\* ------------------------------------------------------ diagnostic values
ErrorMessage(d) == [k |-> "msg", id |-> d, elems |-> <<>>]
SilentError == [k |-> "silent", id |-> 0, elems |-> <<>>]
Syn2Error(w) == [k |-> "syn", id |-> w, elems |-> <<>>]
Error(es) == [k |-> "error", id |-> 0, elems |-> es]
NoError == [k |-> "none", id |-> 0, elems |-> <<>>]

\* Error::from: a collection holding the one boxed value
Error_from(e) == Error(<<e>>)

\* faulty variant: the new value is put in front
Error_push_front(err, e) == Error(<<e>> \o err.elems)

\* Error::push
Error_push(err, e) == Error(Append(err.elems, e))

\* Extend for Error: every item of the iterator is boxed and appended
Error_extend(err, iter) == Error(err.elems \o iter)

\* ToTokensError for ErrorMessage: `::core::compile_error!` spanned at
\* span.start followed by the `{ msg }` group spanned at span.end
ErrorMessage_to_tokens(e) == << <<"compile_error", e.id>>, <<"msg", e.id>> >>

\* syn2::Error::to_compile_error
Syn2Error_to_tokens(e) == << <<"syn_compile_error", e.id>>, <<"syn_msg", e.id>> >>

\* faulty variant: SilentError expands to a compile_error!
SilentError_to_tokens_loud(e) == << <<"compile_error", e.id>>, <<"msg", e.id>> >>

\* ToTokensError for SilentError
SilentError_to_tokens(e) == <<>>

RECURSIVE to_tokens(_)
\* faulty variant: the elements are rendered last to first
Error_to_tokens_reversed(e) ==
    Concat([i \in 1..Len(e.elems) |-> to_tokens(e.elems[Len(e.elems) + 1 - i])])

\* ToTokensError for Error: every element in order
Error_to_tokens(e) == Concat([i \in 1..Len(e.elems) |-> to_tokens(e.elems[i])])

\* dyn ToTokensError::to_tokens
to_tokens(e) ==
    CASE e.k = "msg" -> ErrorMessage_to_tokens(e)
      [] e.k = "syn" -> Syn2Error_to_tokens(e)
      [] e.k = "silent" -> SilentError_to_tokens(e)
      [] e.k = "error" -> Error_to_tokens(e)

\* ----------------------------------------------------------------- Emitter
Emitter_new == <<>>
Emitter_emit(em, e) == Append(em, e)
Emitter_is_empty(em) == em = <<>>
\* faulty variant: the iterator replaces what the Emitter holds
Emitter_extend_replace(em, iter) == iter
\* Extend for Emitter: every item of the iterator is boxed and appended
Emitter_extend(em, iter) == em \o iter
Emitter_clear(em) == <<>>
\* faulty variant: into_result clones the diagnostics and keeps them
Emitter_into_result_keep(em) ==
    IF Emitter_is_empty(em)
    THEN [ok |-> TRUE, err |-> NoError, em |-> em]
    ELSE [ok |-> FALSE, err |-> Error(em), em |-> em]

\* the returned Result and the Emitter afterwards
Emitter_into_result(em) ==
    IF Emitter_is_empty(em)
    THEN [ok |-> TRUE, err |-> NoError, em |-> em]
    ELSE [ok |-> FALSE, err |-> Error(em), em |-> <<>>]
\* faulty variant: only the first diagnostic is rendered
Emitter_to_tokens_first(em) ==
    IF em = <<>> THEN <<>> ELSE to_tokens(em[1])

Emitter_to_tokens(em) == Concat([i \in 1..Len(em) |-> to_tokens(em[i])])

\* ------------------------------------------------------------ return value
NoRet == [tag |-> "none", toks |-> <<>>, err |-> NoError]
Bare(t) == [tag |-> "bare", toks |-> t, err |-> NoError]
Ok(t) == [tag |-> "ok", toks |-> t, err |-> NoError]
Err(e) == [tag |-> "err", toks |-> <<>>, err |-> e]

\* Ok(r) of a Result<T, E> whose T is itself a Result
Nested(r) == [tag |-> "nested", toks |-> <<>>, err |-> NoError, inner |-> r]

\* faulty variant: the success branch is taken as tokens, not normalized
convert_outer_only(r) ==
    IF r.tag = "err"
    THEN [ok |-> FALSE, toks |-> <<>>, err |-> Error_from(r.err)]
    ELSE [ok |-> TRUE, toks |-> r.toks, err |-> NoError]

\* MacroOutput::convert: a token stream is Ok(self.into()); a Result is
\* self.map_err(Error::from).and_then(MacroOutput::convert)
RECURSIVE convert(_)
convert(r) ==
    IF r.tag = "err"
    THEN [ok |-> FALSE, toks |-> <<>>, err |-> Error_from(r.err)]
    ELSE IF r.tag = "nested" THEN convert(r.inner)
    ELSE [ok |-> TRUE, toks |-> r.toks, err |-> NoError]

\* ManyhowTry::manyhow_try: a Result is returned as it is, anything else is Ok
manyhow_try(r) ==
    IF r.tag = "err"
    THEN [ok |-> FALSE, toks |-> <<>>, err |-> r.err]
    ELSE [ok |-> TRUE, toks |-> r.toks, err |-> NoError]

\* ------------------------------------------------------------------- parse
\* the target type of a required input and what syn2::parse2 answers for it
TokenStreamInput == [ty |-> "TokenStream", syn_ok |-> TRUE]
ParseInputs == {[ty |-> "Parse", syn_ok |-> b] : b \in BOOLEAN}
NotParsed == [ok |-> TRUE, tokens |-> <<>>]

\* error_message!("while parsing attribute argument (`#[... (...)]`)")
ContextNote == << <<"compile_error_context", 0>>, <<"msg_context", 0>> >>

\* faulty variant: the note is added to every failed attribute argument
manyhow_parse_always_note(t, tokens, attr, which) ==
    IF t.ty = "TokenStream" \/ t.syn_ok
    THEN [ok |-> TRUE, tokens |-> <<>>]
    ELSE [ok |-> FALSE,
          tokens |-> Syn2Error_to_tokens(Syn2Error(which))
                     \o (IF attr THEN ContextNote ELSE <<>>)]

\* ManyhowParse::manyhow_parse: which = 1 for `input`, 2 for `item`
manyhow_parse(t, tokens, attr, which) ==
    IF t.ty = "TokenStream" \/ t.syn_ok
    THEN [ok |-> TRUE, tokens |-> <<>>]
    ELSE [ok |-> FALSE,
          tokens |-> Syn2Error_to_tokens(Syn2Error(which))
                     \o (IF attr /\ tokens = <<>> THEN ContextNote ELSE <<>>)]

\* ------------------------------------------------------------------- state
\* the optional parameters a handler declares after its required inputs
OptionalParams ==
    {<<>>, <<"Dummy">>, <<"Emitter">>, <<"Dummy", "Emitter">>,
     <<"Emitter", "Dummy">>}

\* the four macro_input_impl! lines of macro_input!: the parameter lists a
\* handler trait is implemented for
macro_input_impl == {<<"Dummy", "Emitter">>, <<"Dummy">>, <<"Emitter">>, <<>>}

Declares(extra, p) == \E i \in 1..Len(extra) : extra[i] = p

Shapes ==
    {[dummy |-> Declares(e, "Dummy"), emitter |-> Declares(e, "Emitter"),
      extra |-> e] : e \in OptionalParams}

\* a library value no call has been made on
Unused == [pc |-> "unused"]

\* no entry point has been called
EntryIdle ==
    /\ kind = "none"
    /\ macro = FALSE
    /\ as_dummy = FALSE
    /\ shape = [dummy |-> FALSE, emitter |-> FALSE, extra |-> <<>>]
    /\ input = <<>>
    /\ item = <<>>
    /\ parsed = [input |-> NotParsed, item |-> NotParsed]
    /\ pc = "idle"
    /\ dummy = <<>>
    /\ emitter = <<>>
    /\ nextId = 1
    /\ dummyOps = 0
    /\ calls = <<>>
    /\ ret = NoRet
    /\ output = <<>>

Init ==
    /\ EntryIdle
    /\ converted = Unused
    /\ collection = Unused
    /\ message = Unused
    /\ ranged = Unused
    /\ manyhow = Unused
    /\ sites = Unused
    /\ early = Unused
    /\ chained = Unused
    /\ held = Unused

\* the handler's parameter list has no MacroInput impl: the call does not
\* type-check and the entry point never runs
NoImpl(k, m, sh) ==
    /\ kind' = k
    /\ macro' = m
    /\ shape' = sh
    /\ pc' = "rejected"
    /\ UNCHANGED <<libvars, as_dummy, input, item, parsed, dummy, emitter,
                   nextId, dummyOps, calls, ret, output>>

\* body.call(.., &mut tokens, &mut emitter)
EnterBody(k, m, f, sh, inp, itm, p, seed) ==
    /\ kind' = k
    /\ macro' = m
    /\ as_dummy' = f
    /\ shape' = sh
    /\ input' = inp
    /\ item' = itm
    /\ parsed' = p
    /\ pc' = "body"
    /\ dummy' = seed
    /\ emitter' = Emitter_new
    /\ UNCHANGED <<libvars, nextId, dummyOps, calls, ret, output>>

\* function(input, input_as_dummy, body) up to the call of the body
function_call ==
    /\ pc = "idle"
    /\ \E n \in 0..MaxInput, f \in BOOLEAN, sh \in Shapes :
         LET inp == InputTokens(n)
             tokens == IF f THEN inp ELSE <<>>
         IN IF sh.extra \notin macro_input_impl
            THEN NoImpl("function", FALSE, sh)
            ELSE EnterBody("function", FALSE, f, sh, inp, <<>>,
                           [input |-> NotParsed, item |-> NotParsed], tokens)

\* faulty variant: without the flag the attribute argument seeds the buffer
attribute_call_input_seed ==
    /\ pc = "idle"
    /\ \E n \in 0..MaxInput, j \in 0..MaxItem, f \in BOOLEAN, sh \in Shapes :
         LET inp == InputTokens(n)
             itm == ItemTokens(j)
             tokens == IF f THEN itm ELSE inp
         IN IF sh.extra \notin macro_input_impl
            THEN NoImpl("attribute", FALSE, sh)
            ELSE EnterBody("attribute", FALSE, f, sh, inp, itm,
                           [input |-> NotParsed, item |-> NotParsed], tokens)

\* attribute(input, item, item_as_dummy, body) up to the call of the body
attribute_call ==
    /\ pc = "idle"
    /\ \E n \in 0..MaxInput, j \in 0..MaxItem, f \in BOOLEAN, sh \in Shapes :
         LET inp == InputTokens(n)
             itm == ItemTokens(j)
             tokens == IF f THEN itm ELSE <<>>
         IN IF sh.extra \notin macro_input_impl
            THEN NoImpl("attribute", FALSE, sh)
            ELSE EnterBody("attribute", FALSE, f, sh, inp, itm,
                           [input |-> NotParsed, item |-> NotParsed], tokens)

\* faulty variant: the item seeds the buffer of derive
derive_call_item_seed ==
    /\ pc = "idle"
    /\ \E j \in 0..MaxItem, sh \in Shapes :
         IF sh.extra \notin macro_input_impl
         THEN NoImpl("derive", FALSE, sh)
         ELSE EnterBody("derive", FALSE, FALSE, sh, <<>>, ItemTokens(j),
                        [input |-> NotParsed, item |-> NotParsed],
                        ItemTokens(j))

\* derive(item, body) up to the call of the body
derive_call ==
    /\ pc = "idle"
    /\ \E j \in 0..MaxItem, sh \in Shapes :
         IF sh.extra \notin macro_input_impl
         THEN NoImpl("derive", FALSE, sh)
         ELSE EnterBody("derive", FALSE, FALSE, sh, <<>>, ItemTokens(j),
                        [input |-> NotParsed, item |-> NotParsed], <<>>)

\* faulty variant: the failure tokens are returned without the buffer
RECURSIVE transparent_inputs_no_dummy(_, _)
transparent_inputs_no_dummy(dm, rs) ==
    IF rs = <<>> THEN [ok |-> TRUE, tokens |-> dm]
    ELSE IF ~Head(rs).ok THEN [ok |-> FALSE, tokens |-> Head(rs).tokens]
    ELSE transparent_inputs_no_dummy(dm, Tail(rs))

\* faulty variant: the tokens of every failed input are collected
RECURSIVE transparent_inputs_collect(_, _)
transparent_inputs_collect(dm, rs) ==
    IF rs = <<>> THEN [ok |-> TRUE, tokens |-> dm]
    ELSE IF ~Head(rs).ok
    THEN [ok |-> FALSE,
          tokens |-> transparent_inputs_collect(dm \o Head(rs).tokens,
                                                Tail(rs)).tokens]
    ELSE transparent_inputs_collect(dm, Tail(rs))

\* transparent_handlers!: the required inputs in declaration order; the first
\* failed one ends the call with the buffer extended by its tokens
RECURSIVE transparent_inputs(_, _)
transparent_inputs(dm, rs) ==
    IF rs = <<>> THEN [ok |-> TRUE, tokens |-> dm]
    ELSE IF ~Head(rs).ok THEN [ok |-> FALSE, tokens |-> dm \o Head(rs).tokens]
    ELSE transparent_inputs(dm, Tail(rs))

\* __macro_handler! up to the call of the body: every input goes through
\* manyhow_parse, then <name>_transparent seeds the buffer and checks them
macro_handler_call(k, f, sh, inp, itm, p, rs, seed) ==
    LET r == transparent_inputs(seed, rs)
    IN IF sh.extra \notin macro_input_impl
       THEN NoImpl(k, TRUE, sh)
       ELSE IF r.ok
       THEN EnterBody(k, TRUE, f, sh, inp, itm, p, r.tokens)
       ELSE /\ kind' = k
            /\ macro' = TRUE
            /\ as_dummy' = f
            /\ shape' = sh
            /\ input' = inp
            /\ item' = itm
            /\ parsed' = p
            /\ pc' = "done"
            /\ output' = r.tokens
            /\ UNCHANGED <<libvars, dummy, emitter, nextId, dummyOps, calls, ret>>

InputTypes == {TokenStreamInput} \cup ParseInputs

\* function!(input, body) and function!(#[as_dummy] input, body)
function_macro_call ==
    /\ pc = "idle"
    /\ \E n \in 0..MaxInput, f \in BOOLEAN, sh \in Shapes, ti \in InputTypes :
         LET inp == InputTokens(n)
             pin == manyhow_parse(ti, inp, FALSE, 1)
         IN macro_handler_call("function", f, sh, inp, <<>>,
                               [input |-> pin, item |-> NotParsed], <<pin>>,
                               IF f THEN inp ELSE <<>>)

\* attribute!(input, item, body) and attribute!(input, #[as_dummy] item, body)
attribute_macro_call ==
    /\ pc = "idle"
    /\ \E n \in 0..MaxInput, j \in 0..MaxItem, f \in BOOLEAN, sh \in Shapes,
          ti \in InputTypes, tj \in InputTypes :
         LET inp == InputTokens(n)
             itm == ItemTokens(j)
             pin == manyhow_parse(ti, inp, TRUE, 1)
             pitem == manyhow_parse(tj, itm, FALSE, 2)
         IN macro_handler_call("attribute", f, sh, inp, itm,
                               [input |-> pin, item |-> pitem], <<pin, pitem>>,
                               IF f THEN itm ELSE <<>>)

\* derive!(item, body)
derive_macro_call ==
    /\ pc = "idle"
    /\ \E j \in 0..MaxItem, sh \in Shapes, tj \in InputTypes :
         LET itm == ItemTokens(j)
             pitem == manyhow_parse(tj, itm, FALSE, 2)
         IN macro_handler_call("derive", FALSE, sh, <<>>, itm,
                               [input |-> NotParsed, item |-> pitem], <<pitem>>,
                               <<>>)

\* ---------------------------------------------------------------- the body
\* faulty variant: call hands both optional parameters to every handler
Supplied_always(sh, p) == TRUE

\* macro_input_impl!, fn call: self($($input,)+ $($dummy2,)? $($emitter2,)?),
\* the handler gets the optional parameters its parameter list names
Supplied(sh, p) == Declares(sh.extra, p)

Call(op, arg, before, r) ==
    [op |-> op, arg |-> arg, before |-> before, after |-> r.em, ok |-> r.ok,
     err |-> r.err]

\* emitter.emit(ErrorMessage::..)
body_emit ==
    /\ pc = "body" /\ Supplied(shape, "Emitter")
    /\ Len(calls) < MaxEmitterCalls
    /\ LET em == Emitter_emit(emitter, ErrorMessage(nextId))
       IN /\ emitter' = em
          /\ calls' = Append(calls, Call("emit", ErrorMessage(nextId), emitter,
                                [ok |-> TRUE, err |-> NoError, em |-> em]))
    /\ nextId' = nextId + 1
    /\ UNCHANGED <<libvars, kind, macro, as_dummy, shape, input, item, parsed, pc,
                   dummy, dummyOps, ret, output>>

\* emitter.into_result()
body_into_result ==
    /\ pc = "body" /\ Supplied(shape, "Emitter")
    /\ Len(calls) < MaxEmitterCalls
    /\ LET r == Emitter_into_result(emitter)
       IN /\ emitter' = r.em
          /\ calls' = Append(calls, Call("into_result", NoError, emitter, r))
    /\ UNCHANGED <<libvars, kind, macro, as_dummy, shape, input, item, parsed, pc,
                   dummy, nextId, dummyOps, ret, output>>

\* emitter.clear()
body_clear ==
    /\ pc = "body" /\ Supplied(shape, "Emitter")
    /\ Len(calls) < MaxEmitterCalls
    /\ LET em == Emitter_clear(emitter)
       IN /\ emitter' = em
          /\ calls' = Append(calls, Call("clear", NoError, emitter,
                                [ok |-> TRUE, err |-> NoError, em |-> em]))
    /\ UNCHANGED <<libvars, kind, macro, as_dummy, shape, input, item, parsed, pc,
                   dummy, nextId, dummyOps, ret, output>>

\* *dummy = quote!{..}
body_assign_dummy ==
    /\ pc = "body" /\ Supplied(shape, "Dummy")
    /\ dummyOps < MaxDummyOps
    /\ dummy' = NewDummy
    /\ dummyOps' = dummyOps + 1
    /\ UNCHANGED <<libvars, kind, macro, as_dummy, shape, input, item, parsed, pc,
                   emitter, nextId, calls, ret, output>>

\* quote!{..}.to_tokens(dummy)
body_append_dummy ==
    /\ pc = "body" /\ Supplied(shape, "Dummy")
    /\ dummyOps < MaxDummyOps
    /\ dummy' = dummy \o MoreDummy
    /\ dummyOps' = dummyOps + 1
    /\ UNCHANGED <<libvars, kind, macro, as_dummy, shape, input, item, parsed, pc,
                   emitter, nextId, calls, ret, output>>

\* what the body can return: a bare output, Ok(output), Err(SilentError),
\* Err(ErrorMessage) or the Err of an earlier emitter.into_result()
RetValues ==
    {Bare(OutTokens), Ok(OutTokens), Err(SilentError), Err(ErrorMessage(nextId))}
    \cup {Err(calls[i].err) :
            i \in {c \in 1..Len(calls) :
                     calls[c].op = "into_result" /\ ~calls[c].ok}}

\* ------------------------------------------------- after the body returned
\* faulty variant: on failure the error is rendered into an empty stream
function_output_no_dummy(tokens, r, em) ==
    LET c == convert(r)
        t == IF c.ok THEN c.toks ELSE to_tokens(c.err)
    IN t \o Emitter_to_tokens(em)

\* function: tokens is the buffer the body worked on
function_output(tokens, r, em) ==
    LET c == convert(r)
        t == IF c.ok THEN c.toks ELSE tokens \o to_tokens(c.err)
    IN t \o Emitter_to_tokens(em)

\* faulty variant: on failure the item stands in for the buffer when it seeded it
attribute_output_item(tokens, r, em) ==
    LET c == convert(r)
        t == IF c.ok THEN c.toks
             ELSE (IF as_dummy THEN item ELSE tokens) \o to_tokens(c.err)
    IN t \o Emitter_to_tokens(em)

attribute_output(tokens, r, em) ==
    LET c == convert(r)
        t == IF c.ok THEN c.toks ELSE tokens \o to_tokens(c.err)
    IN t \o Emitter_to_tokens(em)

derive_output(tokens, r, em) ==
    LET c == convert(r)
        t == IF c.ok THEN c.toks ELSE tokens \o to_tokens(c.err)
    IN t \o Emitter_to_tokens(em)

\* faulty variant: the buffer is put in front of the tokens before the match
macro_handler_output_dummy_first(dm, r, em) ==
    LET tokens == dm \o Emitter_to_tokens(em)
        t == manyhow_try(r)
    IN IF t.ok THEN tokens \o t.toks
       ELSE tokens \o to_tokens(t.err)

\* <name>_transparent renders the Emitter into `tokens` and returns
\* (output, tokens, dummy); __macro_handler! then adds the output or the error
macro_handler_output(dm, r, em) ==
    LET tokens == Emitter_to_tokens(em)
        t == manyhow_try(r)
    IN IF t.ok THEN tokens \o t.toks
       ELSE (dm \o tokens) \o to_tokens(t.err)

Return(r, out) ==
    /\ ret' = r
    /\ output' = out
    /\ pc' = "done"
    /\ UNCHANGED <<libvars, kind, macro, as_dummy, shape, input, item, parsed, dummy,
                   emitter, nextId, dummyOps, calls>>

function_return ==
    /\ pc = "body" /\ kind = "function" /\ ~macro
    /\ \E r \in RetValues : Return(r, function_output(dummy, r, emitter))

attribute_return ==
    /\ pc = "body" /\ kind = "attribute" /\ ~macro
    /\ \E r \in RetValues : Return(r, attribute_output(dummy, r, emitter))

derive_return ==
    /\ pc = "body" /\ kind = "derive" /\ ~macro
    /\ \E r \in RetValues : Return(r, derive_output(dummy, r, emitter))

macro_handler_return ==
    /\ pc = "body" /\ macro
    /\ \E r \in RetValues : Return(r, macro_handler_output(dummy, r, emitter))

Next ==
    \/ function_call
    \/ attribute_call
    \/ derive_call
    \/ function_macro_call
    \/ attribute_macro_call
    \/ derive_macro_call
    \/ body_emit
    \/ body_into_result
    \/ body_clear
    \/ body_assign_dummy
    \/ body_append_dummy
    \/ function_return
    \/ attribute_return
    \/ derive_return
    \/ macro_handler_return

Spec == Init /\ [][Next]_vars

\* ------------------------------------------------- MacroOutput::convert
\* sequences over S of length at most n
SeqsUpTo(S, n) == UNION {[1..k -> S] : k \in 0..n}

\* the values a handler can fail with
Messages == {ErrorMessage(i) : i \in 1..MaxElems}
BuiltErrors == {Error(es) : es \in SeqsUpTo(Messages, MaxElems)}
Errors == {SilentError, Syn2Error(1)} \cup Messages \cup BuiltErrors

\* the values a handler can return: a token stream, or a Result nested n deep
RECURSIVE MacroOutputs(_)
MacroOutputs(n) ==
    IF n = 0 THEN {Bare(InputTokens(i)) : i \in 0..MaxInput}
    ELSE IF n = 1
    THEN {Ok(InputTokens(i)) : i \in 0..MaxInput} \cup {Err(e) : e \in Errors}
    ELSE {Nested(r) : r \in MacroOutputs(n - 1)} \cup {Err(e) : e \in Errors}

InitConvert ==
    /\ EntryIdle
    /\ converted \in {[pc |-> "arg", arg |-> r, res |-> convert(Bare(<<>>))] :
                        r \in UNION {MacroOutputs(n) : n \in 0..MaxNest}}
    /\ collection = Unused
    /\ message = Unused
    /\ ranged = Unused
    /\ manyhow = Unused
    /\ sites = Unused
    /\ early = Unused
    /\ chained = Unused
    /\ held = Unused

\* output.convert()
convert_call ==
    /\ converted.pc = "arg"
    /\ converted' = [converted EXCEPT !.pc = "done", !.res = convert(converted.arg)]
    /\ UNCHANGED <<auxvars, kind, macro, as_dummy, shape, input, item, parsed, pc,
                   dummy, emitter, nextId, dummyOps, calls, ret, output,
                   collection, message, ranged, manyhow, sites>>

NextConvert == convert_call

SpecConvert == InitConvert /\ [][NextConvert]_vars

\* --------------------------------------------------- Error::push / extend
\* an Error as From<SilentError> (empty) or Error::from (one value) builds it;
\* ops lists the values every constructor, push and extend call was given
InitError ==
    /\ EntryIdle
    /\ converted = Unused
    /\ collection \in
         {[pc |-> "built", err |-> Error(<<>>),
           ops |-> << [op |-> "from", args |-> <<>>] >>]}
         \cup {[pc |-> "built", err |-> Error_from(m),
                ops |-> << [op |-> "from", args |-> <<m>>] >>] : m \in Messages}
    /\ message = Unused
    /\ ranged = Unused
    /\ manyhow = Unused
    /\ sites = Unused
    /\ early = Unused
    /\ chained = Unused
    /\ held = Unused

\* error.push(m)
Error_push_call ==
    /\ collection.pc = "built" /\ Len(collection.ops) <= MaxErrorCalls
    /\ Len(collection.err.elems) < MaxElems
    /\ \E m \in Messages :
         collection' = [collection EXCEPT
                          !.err = Error_push(collection.err, m),
                          !.ops = Append(@, [op |-> "push", args |-> <<m>>])]
    /\ UNCHANGED <<auxvars, kind, macro, as_dummy, shape, input, item, parsed, pc,
                   dummy, emitter, nextId, dummyOps, calls, ret, output,
                   converted, message, ranged, manyhow, sites>>

\* error.extend(iter)
Error_extend_call ==
    /\ collection.pc = "built" /\ Len(collection.ops) <= MaxErrorCalls
    /\ \E iter \in SeqsUpTo(Messages, MaxElems - Len(collection.err.elems)) :
         collection' = [collection EXCEPT
                          !.err = Error_extend(collection.err, iter),
                          !.ops = Append(@, [op |-> "extend", args |-> iter])]
    /\ UNCHANGED <<auxvars, kind, macro, as_dummy, shape, input, item, parsed, pc,
                   dummy, emitter, nextId, dummyOps, calls, ret, output,
                   converted, message, ranged, manyhow, sites>>

NextError ==
    \/ Error_push_call
    \/ Error_extend_call

SpecError == InitError /\ [][NextError]_vars

\* ------------------------------------------------ Display for ErrorMessage
\* a string is the sequence of its characters
NL == "\n"
Whitespace == {" ", NL}
MsgChars == {"a", " ", NL}
TextChars == {"a", NL}
\* the labels of ErrorMessage::help and ErrorMessage::warning
Labels == {<<"h", "e", "l", "p">>, <<"w", "a", "r", "n", "i", "n", "g">>}

\* ErrorMessage::new(span, msg)
ErrorMessage_new(m) == [msg |-> m, attachments |-> <<>>]

\* ErrorMessage::attachment(label, msg)
ErrorMessage_attachment(e, label, text) ==
    [e EXCEPT !.attachments = Append(@, [label |-> label, text |-> text])]

\* the characters of all attachments of e
AttachedChars(e) ==
    Len(Concat([i \in 1..Len(e.attachments) |-> e.attachments[i].text]))

\* str::trim_end
RECURSIVE trim_end(_)
trim_end(s) ==
    IF s # <<>> /\ s[Len(s)] \in Whitespace
    THEN trim_end(SubSeq(s, 1, Len(s) - 1))
    ELSE s

\* position of the first line break of s, 0 if it has none
RECURSIVE find_nl(_, _)
find_nl(s, i) ==
    IF i > Len(s) THEN 0 ELSE IF s[i] = NL THEN i ELSE find_nl(s, i + 1)

\* str::lines: the lines without their terminators; a last line that is
\* empty is not a line, so "" has no lines
RECURSIVE lines(_)
lines(s) ==
    IF s = <<>> THEN <<>>
    ELSE LET i == find_nl(s, 1)
         IN IF i = 0 THEN <<s>>
            ELSE <<SubSeq(s, 1, i - 1)>> \o lines(SubSeq(s, i + 1, Len(s)))

\* format padding `{1:2$}` of "" to width n
Pad(n) == [i \in 1..n |-> " "]

\* faulty variant: continuation lines start under the colon
fmt_attachment_under_colon(label, text) ==
    LET ls == lines(text)
    IN IF ls = <<>> THEN [panic |-> TRUE, out |-> <<>>]
       ELSE [panic |-> FALSE,
             out |-> <<" ", " ", "=", " ">> \o label \o <<":", " ">> \o ls[1]
                     \o <<NL>>
                     \o Concat([i \in 1..(Len(ls) - 1) |->
                                  <<" ", " ", " ", " ">> \o Pad(Len(label))
                                  \o ls[i + 1] \o <<NL>>])]

\* one turn of the loop over the attachments: writeln!("  = {label}: {}")
\* of the first line (expect panics when there is none), then
\* writeln!("    {1:2$}  {}", line, "", label.len()) for every other line
fmt_attachment(label, text) ==
    LET ls == lines(text)
    IN IF ls = <<>> THEN [panic |-> TRUE, out |-> <<>>]
       ELSE [panic |-> FALSE,
             out |-> <<" ", " ", "=", " ">> \o label \o <<":", " ">> \o ls[1]
                     \o <<NL>>
                     \o Concat([i \in 1..(Len(ls) - 1) |->
                                  <<" ", " ", " ", " ">> \o Pad(Len(label))
                                  \o <<" ", " ">> \o ls[i + 1] \o <<NL>>])]

\* faulty variant: the message is written as it is
ErrorMessage_fmt_untrimmed(e) ==
    LET blocks == [i \in 1..Len(e.attachments) |->
                     fmt_attachment(e.attachments[i].label,
                                    e.attachments[i].text)]
    IN [panic |-> \E i \in 1..Len(blocks) : blocks[i].panic,
        out |-> e.msg
                \o (IF e.attachments # <<>> THEN <<NL, NL>> ELSE <<>>)
                \o Concat([i \in 1..Len(blocks) |-> blocks[i].out])]

\* Display::fmt / to_string
ErrorMessage_fmt(e) ==
    LET blocks == [i \in 1..Len(e.attachments) |->
                     fmt_attachment(e.attachments[i].label,
                                    e.attachments[i].text)]
    IN [panic |-> \E i \in 1..Len(blocks) : blocks[i].panic,
        out |-> trim_end(e.msg)
                \o (IF e.attachments # <<>> THEN <<NL, NL>> ELSE <<>>)
                \o Concat([i \in 1..Len(blocks) |-> blocks[i].out])]

InitDisplay ==
    /\ EntryIdle
    /\ converted = Unused
    /\ collection = Unused
    /\ message \in {[pc |-> "built", e |-> ErrorMessage_new(m), out |-> <<>>] :
                      m \in SeqsUpTo(MsgChars, MaxMsg)}
    /\ ranged = Unused
    /\ manyhow = Unused
    /\ sites = Unused
    /\ early = Unused
    /\ chained = Unused
    /\ held = Unused

\* message.attachment(label, text)
ErrorMessage_attachment_call ==
    /\ message.pc = "built" /\ Len(message.e.attachments) < MaxAttachments
    /\ \E label \in Labels,
          text \in SeqsUpTo(TextChars, MaxText - AttachedChars(message.e)) :
         message' = [message EXCEPT
                       !.e = ErrorMessage_attachment(@, label, text)]
    /\ UNCHANGED <<auxvars, kind, macro, as_dummy, shape, input, item, parsed, pc,
                   dummy, emitter, nextId, dummyOps, calls, ret, output,
                   converted, collection, ranged, manyhow, sites>>

\* message.to_string()
ErrorMessage_to_string_call ==
    /\ message.pc = "built"
    /\ LET r == ErrorMessage_fmt(message.e)
       IN message' = [message EXCEPT
                        !.pc = IF r.panic THEN "panicked" ELSE "shown",
                        !.out = IF r.panic THEN <<>> ELSE r.out]
    /\ UNCHANGED <<auxvars, kind, macro, as_dummy, shape, input, item, parsed, pc,
                   dummy, emitter, nextId, dummyOps, calls, ret, output,
                   converted, collection, ranged, manyhow, sites>>

NextDisplay ==
    \/ ErrorMessage_attachment_call
    \/ ErrorMessage_to_string_call

SpecDisplay == InitDisplay /\ [][NextDisplay]_vars

\* -------------------------------------------------------------- SpanRanged
\* Span::call_site()
call_site == <<"call_site", 0>>
\* TokenTree::span: the position the token <<tag, p>> comes from
span(t) == <<"span", t[2]>>
TokenStreams ==
    SeqsUpTo({<<"token", p>> : p \in 1..MaxSpan}, MaxTokens)

\* faulty variant: without a further token the range ends at the call site
span_range_open_end(ts) ==
    LET first == IF ts = <<>> THEN call_site ELSE span(Head(ts))
        this == IF ts = <<>> THEN <<>> ELSE Tail(ts)
        last == IF this = <<>> THEN call_site ELSE span(this[Len(this)])
    IN [start |-> first, end |-> last]

\* SpanRanged for proc_macro::TokenStream: `this` is the iterator, first
\* takes its next token and last is the last of those that remain
span_range(ts) ==
    LET first == IF ts = <<>> THEN call_site ELSE span(Head(ts))
        this == IF ts = <<>> THEN <<>> ELSE Tail(ts)
        last == IF this = <<>> THEN first ELSE span(this[Len(this)])
    IN [start |-> first, end |-> last]

\* to_tokens_span_range: the tokens `tokens` expands to, then their range
to_tokens_span_range(tokens) ==
    span_range([i \in 1..Len(tokens) |-> tokens[i]])

InitSpan ==
    /\ EntryIdle
    /\ converted = Unused
    /\ collection = Unused
    /\ message = Unused
    /\ ranged \in {[pc |-> "tokens", tokens |-> ts,
                    span |-> [start |-> call_site, end |-> call_site]] :
                     ts \in TokenStreams}
    /\ manyhow = Unused
    /\ sites = Unused
    /\ early = Unused
    /\ chained = Unused
    /\ held = Unused

\* ErrorMessage::spanned(tokens, msg): span = to_tokens_span_range(tokens)
ErrorMessage_spanned_call ==
    /\ ranged.pc = "tokens"
    /\ ranged' = [ranged EXCEPT !.pc = "spanned",
                                !.span = to_tokens_span_range(ranged.tokens)]
    /\ UNCHANGED <<auxvars, kind, macro, as_dummy, shape, input, item, parsed, pc,
                   dummy, emitter, nextId, dummyOps, calls, ret, output,
                   converted, collection, message, manyhow, sites>>

NextSpan == ErrorMessage_spanned_call

SpecSpan == InitSpan /\ [][NextSpan]_vars

\* ------------------------------------------------------------- #[manyhow]
\* the tokens of the flag list (commas are skipped by next_tt_comma); "(..)"
\* is a group, the one token of the list that is no identifier
FlagTokens ==
    {"proc_macro", "proc_macro_attribute", "proc_macro_derive", "(..)",
     "input_as_dummy", "item_as_dummy", "impl_fn", "unknown_flag"}
\* the identifiers of the attributes written below #[manyhow]
BelowIdents == {"proc_macro", "proc_macro_attribute", "proc_macro_derive", "doc"}
\* what the attributes are written on
Decls ==
    {"fn", "use", "use_group", "struct", "fn_no_name", "fn_generics",
     "fn_no_return_type"}

\* `item`: the attributes below #[manyhow] and the declaration
manyhow_item(below, decl) ==
    [j \in 1..Len(below) |-> <<"attribute", below[j]>>] \o << <<"decl", decl>> >>

\* error / error_help: ::core::compile_error!{ #error } spanned at sp
compile_error(sp, error) == << <<"compile_error", sp>>, <<error, sp>> >>
\* faulty variant: the error is returned without the item
with_error_alone(itm, sp, error) == compile_error(sp, error)
\* with_error / with_helpful_error
with_error(itm, sp, error) == itm \o compile_error(sp, error)

\* ProcMacroType of an identifier
ProcMacroType(ident) ==
    CASE ident = "proc_macro" -> "Function"
      [] ident = "proc_macro_attribute" -> "Attribute"
      [] ident = "proc_macro_derive" -> "Derive"
      [] OTHER -> "None"

\* ProcMacroType::dummy_flag
dummy_flag(k) ==
    CASE k = "Function" -> "input_as_dummy"
      [] k = "Attribute" -> "item_as_dummy"
      [] OTHER -> ""

\* the locals of manyhow() before any token is read; returned is set by a
\* `return` and output then holds the returned tokens
manyhow_start ==
    [kind |-> "None", kind_span |-> call_site, kind_attribute |-> <<>>,
     output |-> <<>>, flags |-> <<>>, returned |-> FALSE]

\* faulty variant: a later kind takes the place of the recorded one
set_kind_overwrite(st, ident, sp, create_attribute, itm) ==
    IF ProcMacroType(ident) = "None" THEN st
    ELSE [st EXCEPT
            !.kind = ProcMacroType(ident),
            !.kind_span = sp,
            !.kind_attribute =
                IF create_attribute THEN << <<"attribute", ident>> >> ELSE @]

\* the closure set_kind: identifiers that name no kind are passed over, a
\* second kind returns the item with an error at each of the two
set_kind(st, ident, sp, create_attribute, itm) ==
    IF ProcMacroType(ident) = "None" THEN st
    ELSE IF st.kind # "None"
    THEN [st EXCEPT
            !.returned = TRUE,
            !.output = with_error(
                           with_error(itm, st.kind_span,
                                      "proc_macro kind specified multiple times"),
                           sp, "proc_macro kind specified multiple times")]
    ELSE [st EXCEPT
            !.kind = ProcMacroType(ident),
            !.kind_span = sp,
            !.kind_attribute =
                IF create_attribute THEN << <<"attribute", ident>> >> ELSE @]

\* while let Some(pound) = parser.next_tt_pound(): every attribute below is
\* kept on the output and offered to set_kind
RECURSIVE scan_attributes(_, _, _, _)
scan_attributes(st, below, j, itm) ==
    IF st.returned \/ j > Len(below) THEN st
    ELSE scan_attributes(
             set_kind([st EXCEPT !.output = Append(@, <<"attribute", below[j]>>)],
                      below[j], <<"below", j>>, FALSE, itm),
             below, j + 1, itm)

\* while !input.is_empty(): the flag list is read token by token
RECURSIVE scan_flags(_, _, _, _)
scan_flags(st, inp, i, itm) ==
    IF st.returned \/ i > Len(inp) THEN st
    ELSE IF inp[i] = "(..)"
    THEN [st EXCEPT
            !.returned = TRUE,
            !.output = with_error(itm, <<"flag", i>>,
                           "manyhow expects a comma seperated list of flags")]
    ELSE IF inp[i] = "proc_macro_derive"
    THEN IF i < Len(inp) /\ inp[i + 1] = "(..)"
         THEN LET s == set_kind(st, inp[i], <<"flag", i>>, FALSE, itm)
              IN IF s.returned THEN s
                 ELSE scan_flags(
                          [s EXCEPT
                             !.output = Append(@, <<"attribute", inp[i]>>),
                             !.flags = Append(@, [ident |-> inp[i], at |-> i])],
                          inp, i + 2, itm)
         ELSE [st EXCEPT
                 !.returned = TRUE,
                 !.output = with_error(
                                itm, <<"flag", IF i < Len(inp) THEN i + 1 ELSE i>>,
                                "proc_macro_derive expects (TraitName)")]
    ELSE LET s == set_kind(st, inp[i], <<"flag", i>>, TRUE, itm)
         IN IF s.returned THEN s
            ELSE scan_flags(
                     [s EXCEPT !.flags = Append(@, [ident |-> inp[i], at |-> i])],
                     inp, i + 1, itm)

\* "only `proc_macro`, `proc_macro_attribute`, `proc_macro_derive`, `{}`, and
\* `impl_fn` are supported" with kind.dummy_flag() filled in
only_supported(k) ==
    CASE dummy_flag(k) = "input_as_dummy" ->
           "only the kinds, input_as_dummy, and impl_fn are supported"
      [] dummy_flag(k) = "item_as_dummy" ->
           "only the kinds, item_as_dummy, and impl_fn are supported"
      [] OTHER -> "only the kinds, , and impl_fn are supported"

\* faulty variant: input_as_dummy is also taken for an attribute macro
flag_error_any_dummy(ident, k) ==
    CASE ident = "impl_fn" -> ""
      [] ident \in {"item_as_dummy", "input_as_dummy"} /\ k = "Attribute" -> ""
      [] ident = "item_as_dummy" /\ k = "Function" ->
           "item_as_dummy is only supported with #[proc_macro_attribute]"
      [] ident = "input_as_dummy" /\ k = "Function" -> ""
      [] ident \in {"input_as_dummy", "item_as_dummy"} /\ k = "Derive" ->
           "only #[proc_macro] and #[proc_macro_attribute] support *_as_dummy flags"
      [] ident \in {"proc_macro", "proc_macro_attribute", "proc_macro_derive"} -> ""
      [] OTHER -> only_supported(k)

\* the arms of `match (ident, kind)` that return: the error of a flag, ""
\* for a flag that is taken
flag_error(ident, k) ==
    CASE ident = "impl_fn" -> ""
      [] ident = "item_as_dummy" /\ k = "Attribute" -> ""
      [] ident = "item_as_dummy" /\ k = "Function" ->
           "item_as_dummy is only supported with #[proc_macro_attribute]"
      [] ident = "input_as_dummy" /\ k = "Function" -> ""
      [] ident = "input_as_dummy" /\ k = "Attribute" ->
           "input_as_dummy is only supported with #[proc_macro]"
      [] ident \in {"input_as_dummy", "item_as_dummy"} /\ k = "Derive" ->
           "only #[proc_macro] and #[proc_macro_attribute] support *_as_dummy flags"
      [] ident \in {"proc_macro", "proc_macro_attribute", "proc_macro_derive"} -> ""
      [] OTHER -> only_supported(k)

\* for (i, param) in flags.iter().enumerate(): the first flag with an error
\* returns, impl_fn and the dummy flags are noted
RECURSIVE check_flags(_, _, _, _, _)
check_flags(acc, flags, i, k, itm) ==
    IF acc.returned \/ i > Len(flags) THEN acc
    ELSE LET ident == flags[i].ident
             sp == <<"flag", flags[i].at>>
         IN IF flag_error(ident, k) # ""
            THEN [acc EXCEPT !.returned = TRUE,
                             !.output = with_error(itm, sp, flag_error(ident, k))]
            ELSE check_flags(
                     [acc EXCEPT
                        !.as_dummy = @ \/ ident \in {"item_as_dummy",
                                                     "input_as_dummy"},
                        !.create_impl_fn =
                            IF ident = "impl_fn" THEN flags[i].at ELSE @],
                     flags, i + 1, k, itm)

\* the error the declaration is returned with, "" when it is a function or a
\* use statement of one
decl_error(decl, create_impl_fn) ==
    CASE decl \in {"use", "use_group"} /\ create_impl_fn # 0 ->
           "impl_fn is not supported on use statements"
      [] decl = "use_group" ->
           "only use statements for a single function are supported"
      [] decl = "struct" -> "expected function"
      [] decl = "fn_no_name" -> "expected function name"
      [] decl = "fn_generics" -> "proc macros cannot have generics"
      [] decl = "fn_no_return_type" -> "expected return type"
      [] OTHER -> ""

\* ProcMacroType::to_tokens: ::manyhow::function!(#[as_dummy] __input, path)
glue(k, d) ==
    (IF d THEN << <<"as_dummy", k>> >> ELSE <<>>) \o << <<"glue", k>> >>

\* manyhow(input, item): the tokens the attribute expands to
manyhow_expand(inp, below, decl) ==
    LET itm == manyhow_item(below, decl)
        a == scan_attributes(manyhow_start, below, 1, itm)
        f == scan_flags(a, inp, 1, itm)
        c == check_flags([as_dummy |-> FALSE, create_impl_fn |-> 0,
                          returned |-> FALSE, output |-> <<>>],
                         f.flags, 1, f.kind, itm)
    IN IF f.returned THEN f.output
       ELSE IF f.kind = "None"
       THEN with_error(itm, call_site, "expected proc_macro* attribute or flag")
       ELSE IF c.returned THEN c.output
       ELSE IF decl_error(decl, c.create_impl_fn) # ""
       THEN with_error(itm,
                       IF decl \in {"use", "use_group"} /\ c.create_impl_fn # 0
                       THEN <<"flag", c.create_impl_fn>> ELSE <<"decl", 0>>,
                       decl_error(decl, c.create_impl_fn))
       ELSE f.output \o f.kind_attribute
            \o << <<"fn_name", decl>>, <<"signature", f.kind>> >>
            \o (IF decl = "fn" /\ c.create_impl_fn = 0
                THEN << <<"inner_impl_fn", decl>> >> ELSE <<>>)
            \o glue(f.kind, c.as_dummy)
            \o (IF decl = "fn" /\ c.create_impl_fn # 0
                THEN << <<"outer_impl_fn", decl>> >> ELSE <<>>)

InitManyhow ==
    /\ EntryIdle
    /\ converted = Unused
    /\ collection = Unused
    /\ message = Unused
    /\ ranged = Unused
    /\ manyhow \in [pc : {"written"}, input : SeqsUpTo(FlagTokens, MaxFlags),
                    below : SeqsUpTo(BelowIdents, MaxBelow), decl : Decls,
                    output : {<<>>}]
    /\ sites = Unused
    /\ early = Unused
    /\ chained = Unused
    /\ held = Unused

\* the compiler expands #[manyhow(input)] on the item
manyhow_call ==
    /\ manyhow.pc = "written"
    /\ manyhow' = [manyhow EXCEPT
                     !.pc = "expanded",
                     !.output = manyhow_expand(manyhow.input, manyhow.below,
                                               manyhow.decl)]
    /\ UNCHANGED <<auxvars, kind, macro, as_dummy, shape, input, item, parsed, pc,
                   dummy, emitter, nextId, dummyOps, calls, ret, output,
                   converted, collection, message, ranged, sites>>

NextManyhow == manyhow_call

SpecManyhow == InitManyhow /\ [][NextManyhow]_vars

\* ------------------------------------------------------- two use sites
\* two invocations of function() / function!() whose steps interleave; every
\* token and diagnostic carries the site it belongs to
Sites == {1, 2}
SiteInput(i, n) == [k \in 1..n |-> <<"input", <<i, k>>>>]
SiteOutput(i) == << <<"output", <<i, 1>>>> >>
SiteIdle ==
    [pc |-> "idle", macro |-> FALSE, as_dummy |-> FALSE, input |-> <<>>,
     dummy |-> <<>>, emitter |-> <<>>, ret |-> NoRet, output |-> <<>>]

\* faulty variant: the Emitter is a static all invocations write to
site_emitter_static(ss, i) ==
    Concat([j \in 1..2 |-> IF j # i THEN ss[j].emitter ELSE <<>>])

\* let mut emitter = Emitter::new(): a local of the invocation
site_emitter(ss, i) == Emitter_new

InitSites ==
    /\ EntryIdle
    /\ converted = Unused
    /\ collection = Unused
    /\ message = Unused
    /\ ranged = Unused
    /\ manyhow = Unused
    /\ sites = [i \in Sites |-> SiteIdle]
    /\ early = Unused
    /\ chained = Unused
    /\ held = Unused

\* function(input, input_as_dummy, body) / function!(input, body) up to the
\* call of the body, at site i
site_call ==
    \E i \in Sites, m \in BOOLEAN, f \in BOOLEAN, n \in 0..MaxInput :
        /\ sites[i].pc = "idle"
        /\ sites' = [sites EXCEPT ![i] =
                       [pc |-> "body", macro |-> m, as_dummy |-> f,
                        input |-> SiteInput(i, n),
                        dummy |-> IF f THEN SiteInput(i, n) ELSE <<>>,
                        emitter |-> site_emitter(sites, i),
                        ret |-> NoRet, output |-> <<>>]]
        /\ UNCHANGED <<auxvars, kind, macro, as_dummy, shape, input, item, parsed, pc,
                       dummy, emitter, nextId, dummyOps, calls, ret, output,
                       converted, collection, message, ranged, manyhow>>

\* emitter.emit(ErrorMessage::..) in the body at site i
site_emit ==
    \E i \in Sites :
        /\ sites[i].pc = "body"
        /\ Cardinality({k \in 1..Len(sites[i].emitter) :
                          sites[i].emitter[k].id[1] = i}) < MaxSiteEmits
        /\ sites' = [sites EXCEPT ![i].emitter =
                       Emitter_emit(@, ErrorMessage(<<i, Len(@) + 1>>))]
        /\ UNCHANGED <<auxvars, kind, macro, as_dummy, shape, input, item, parsed, pc,
                       dummy, emitter, nextId, dummyOps, calls, ret, output,
                       converted, collection, message, ranged, manyhow>>

\* the body at site i returns and the entry point builds its output
site_return ==
    \E i \in Sites :
        /\ sites[i].pc = "body"
        /\ \E r \in {Bare(SiteOutput(i)), Err(ErrorMessage(<<i, 0>>)),
                     Err(SilentError)} :
             sites' = [sites EXCEPT
                         ![i].pc = "done",
                         ![i].ret = r,
                         ![i].output =
                             IF sites[i].macro
                             THEN macro_handler_output(sites[i].dummy, r,
                                                       sites[i].emitter)
                             ELSE function_output(sites[i].dummy, r,
                                                  sites[i].emitter)]
        /\ UNCHANGED <<auxvars, kind, macro, as_dummy, shape, input, item, parsed, pc,
                       dummy, emitter, nextId, dummyOps, calls, ret, output,
                       converted, collection, message, ranged, manyhow>>

NextSites ==
    \/ site_call
    \/ site_emit
    \/ site_return

SpecSites == InitSites /\ [][NextSites]_vars

\* ------------------------------------------------------- bail! / ensure!
\* the arguments of error_message! / bail!: a format string with its
\* arguments (here the text they format to) and `; label = ".."` attachments,
\* or for bail! one expression that evaluates to an error
FmtTexts == {"m1", "m2"}
AttachmentArgs == {[label |-> l, text |-> t] : l \in {"help", "note"},
                                                t \in {"t1", "t2"}}
FmtArgs == {[form |-> "fmt", msg |-> m, atts |-> a, e |-> NoError] :
              m \in FmtTexts, a \in SeqsUpTo(AttachmentArgs, MaxAttachments)}
ExprArgs(E) ==
    {[form |-> "expr", msg |-> "", atts |-> <<>>, e |-> x] :
       x \in IF E = "Error"
             THEN {ErrorMessage_new("e"), SilentError, Syn2Error(1)}
             ELSE {ErrorMessage_new("e")}}

\* faulty variant: the attachments are added last to first
RECURSIVE error_message_reversed(_, _)
error_message_reversed(m, atts) ==
    IF atts = <<>> THEN ErrorMessage_new(m)
    ELSE ErrorMessage_attachment(error_message_reversed(m, Tail(atts)),
                                 Head(atts).label, Head(atts).text)

\* error_message!: ErrorMessage::call_site(format_args!(..)) followed by one
\* .attachment(stringify!(label), format_args!(..)) per attachment
RECURSIVE error_message(_, _)
error_message(m, atts) ==
    IF atts = <<>> THEN ErrorMessage_new(m)
    ELSE ErrorMessage_attachment(
             error_message(m, SubSeq(atts, 1, Len(atts) - 1)),
             atts[Len(atts)].label, atts[Len(atts)].text)

\* .into() to the error type E of the enclosing function: From<T> for T,
\* From<ErrorMessage> for Error, From<Syn2Error> for Error, From<SilentError>
\* for Error
into(x, E) ==
    IF E = "ErrorMessage" THEN x
    ELSE IF x = SilentError THEN Error(<<>>)
    ELSE Error_from(x)

NotReturned == [tag |-> "none", err |-> NoError]

\* bail!: return Err(error_message!(..).into()) or return Err($error.into())
bail(args, E) ==
    [tag |-> "err",
     err |-> IF args.form = "fmt"
             THEN into(error_message(args.msg, args.atts), E)
             ELSE into(args.e, E)]

\* faulty variant: expands to `if $cond { bail!(..) }`
ensure_inverted(cond, args, E) == IF cond THEN bail(args, E) ELSE NotReturned

\* ensure!: if !$cond { bail!(..) }
ensure(cond, args, E) == IF ~cond THEN bail(args, E) ELSE NotReturned

InitBail ==
    /\ EntryIdle
    /\ converted = Unused
    /\ collection = Unused
    /\ message = Unused
    /\ ranged = Unused
    /\ manyhow = Unused
    /\ sites = Unused
    /\ early \in {[pc |-> "running", E |-> E, locals |-> 0, n |-> 0,
                   stmt |-> [kind |-> "none", cond |-> TRUE, before |-> 0,
                             args |-> [form |-> "none", msg |-> "",
                                       atts |-> <<>>, e |-> NoError]],
                   ret |-> NotReturned] : E \in {"ErrorMessage", "Error"}}
    /\ chained = Unused
    /\ held = Unused

\* a statement that is neither ensure! nor bail!: it changes a local
other_stmt ==
    /\ early.pc = "running" /\ early.n < MaxStmts
    /\ early' = [early EXCEPT
                   !.locals = @ + 1, !.n = @ + 1,
                   !.stmt = [@ EXCEPT !.kind = "other", !.before = early.locals]]
    /\ UNCHANGED <<kind, macro, as_dummy, shape, input, item, parsed, pc,
                   dummy, emitter, nextId, dummyOps, calls, ret, output,
                   converted, collection, message, ranged, manyhow, sites,
                   chained, held>>

\* ensure!(cond, args..);
ensure_stmt ==
    /\ early.pc = "running" /\ early.n < MaxStmts
    /\ \E cond \in BOOLEAN, args \in FmtArgs \cup ExprArgs(early.E) :
         LET r == ensure(cond, args, early.E)
         IN early' = [early EXCEPT
                        !.pc = IF r.tag = "err" THEN "returned" ELSE "running",
                        !.n = @ + 1,
                        !.stmt = [kind |-> "ensure", cond |-> cond,
                                  before |-> early.locals, args |-> args],
                        !.ret = r]
    /\ UNCHANGED <<kind, macro, as_dummy, shape, input, item, parsed, pc,
                   dummy, emitter, nextId, dummyOps, calls, ret, output,
                   converted, collection, message, ranged, manyhow, sites,
                   chained, held>>

\* bail!(args..);
bail_stmt ==
    /\ early.pc = "running" /\ early.n < MaxStmts
    /\ \E args \in FmtArgs \cup ExprArgs(early.E) :
         early' = [early EXCEPT
                     !.pc = "returned",
                     !.n = @ + 1,
                     !.stmt = [kind |-> "bail", cond |-> TRUE,
                               before |-> early.locals, args |-> args],
                     !.ret = bail(args, early.E)]
    /\ UNCHANGED <<kind, macro, as_dummy, shape, input, item, parsed, pc,
                   dummy, emitter, nextId, dummyOps, calls, ret, output,
                   converted, collection, message, ranged, manyhow, sites,
                   chained, held>>

NextBail ==
    \/ other_stmt
    \/ ensure_stmt
    \/ bail_stmt

SpecBail == InitBail /\ [][NextBail]_vars

\* ------------------------------------------------------ context / join
\* an error value that is not inside a Result
Value(e) == [tag |-> "value", toks |-> <<>>, err |-> e]

\* the errors a Result starts with and the errors added to it
FirstErrors == {ErrorMessage(1), SilentError, Syn2Error(1),
                Error(<<ErrorMessage(1), ErrorMessage(2)>>)}
AddedErrors == {ErrorMessage(3), Syn2Error(2), SilentError}

\* faulty variant: the added error is put in front of the original
ResultExt_context_with_added_first(res, c) ==
    IF res.tag = "err"
    THEN [res |-> Err(Error_push_front(Error_from(res.err), c)), ran |-> TRUE]
    ELSE [res |-> res, ran |-> FALSE]

\* ResultExt::context_with: self.map_err(|e| { let mut e = Error::from(e);
\* e.push(error()); e }); ran tells whether the closure `error` was executed
ResultExt_context_with(res, c) ==
    IF res.tag = "err"
    THEN [res |-> Err(Error_push(Error_from(res.err), c)), ran |-> TRUE]
    ELSE [res |-> res, ran |-> FALSE]

\* ResultExt::context: self.context_with(|| error)
ResultExt_context(res, c) == ResultExt_context_with(res, c)

\* JoinToTokensError::join
JoinToTokensError_join(a, b) == Error_push(Error_from(a), b)

InitContext ==
    /\ EntryIdle
    /\ converted = Unused
    /\ collection = Unused
    /\ message = Unused
    /\ ranged = Unused
    /\ manyhow = Unused
    /\ sites = Unused
    /\ early = Unused
    /\ chained \in {[cur |-> v, n |-> 0, op |-> "none", before |-> v,
                     added |-> NoError, ran |-> FALSE] :
                      v \in {Ok(OutTokens)} \cup {Err(e) : e \in FirstErrors}
                            \cup {Value(e) : e \in FirstErrors}}
    /\ held = Unused

\* result.context(c)
context_call ==
    /\ chained.cur.tag \in {"ok", "err"} /\ chained.n < MaxContext
    /\ \E c \in AddedErrors :
         LET r == ResultExt_context(chained.cur, c)
         IN chained' = [cur |-> r.res, n |-> chained.n + 1, op |-> "context",
                        before |-> chained.cur, added |-> c, ran |-> r.ran]
    /\ UNCHANGED <<kind, macro, as_dummy, shape, input, item, parsed, pc,
                   dummy, emitter, nextId, dummyOps, calls, ret, output,
                   converted, collection, message, ranged, manyhow, sites,
                   early, held>>

\* result.context_with(|| c)
context_with_call ==
    /\ chained.cur.tag \in {"ok", "err"} /\ chained.n < MaxContext
    /\ \E c \in AddedErrors :
         LET r == ResultExt_context_with(chained.cur, c)
         IN chained' = [cur |-> r.res, n |-> chained.n + 1,
                        op |-> "context_with",
                        before |-> chained.cur, added |-> c, ran |-> r.ran]
    /\ UNCHANGED <<kind, macro, as_dummy, shape, input, item, parsed, pc,
                   dummy, emitter, nextId, dummyOps, calls, ret, output,
                   converted, collection, message, ranged, manyhow, sites,
                   early, held>>

\* a.join(b)
join_call ==
    /\ chained.cur.tag = "value" /\ chained.n < MaxContext
    /\ \E b \in AddedErrors :
         chained' = [cur |-> Value(JoinToTokensError_join(chained.cur.err, b)),
                     n |-> chained.n + 1, op |-> "join",
                     before |-> chained.cur, added |-> b, ran |-> FALSE]
    /\ UNCHANGED <<kind, macro, as_dummy, shape, input, item, parsed, pc,
                   dummy, emitter, nextId, dummyOps, calls, ret, output,
                   converted, collection, message, ranged, manyhow, sites,
                   early, held>>

NextContext ==
    \/ context_call
    \/ context_with_call
    \/ join_call

SpecContext == InitContext /\ [][NextContext]_vars

\* ------------------------------------------------- an Emitter on its own
\* held.ops is the history of the calls: the call, the diagnostics handed
\* to it and what it returned
HeldOp(op, args, res) == [op |-> op, args |-> args, res |-> res]

\* Emitter::new()
InitEmitter ==
    /\ EntryIdle
    /\ converted = Unused
    /\ collection = Unused
    /\ message = Unused
    /\ ranged = Unused
    /\ manyhow = Unused
    /\ sites = Unused
    /\ early = Unused
    /\ chained = Unused
    /\ held = [em |-> Emitter_new, next |-> 1, ops |-> <<>>]

\* emitter.emit(error)
Emitter_emit_call ==
    /\ Len(held.ops) < MaxHeldCalls
    /\ LET e == ErrorMessage(held.next)
       IN held' = [em |-> Emitter_emit(held.em, e), next |-> held.next + 1,
                   ops |-> Append(held.ops, HeldOp("emit", <<e>>, "unit"))]
    /\ UNCHANGED <<kind, macro, as_dummy, shape, input, item, parsed, pc,
                   dummy, emitter, nextId, dummyOps, calls, ret, output,
                   converted, collection, message, ranged, manyhow, sites,
                   early, chained>>

\* emitter.extend(iter)
Emitter_extend_call ==
    /\ Len(held.ops) < MaxHeldCalls
    /\ \E n \in 0..MaxIter :
         LET iter == [i \in 1..n |-> ErrorMessage(held.next + i - 1)]
         IN held' = [em |-> Emitter_extend(held.em, iter),
                     next |-> held.next + n,
                     ops |-> Append(held.ops, HeldOp("extend", iter, "unit"))]
    /\ UNCHANGED <<kind, macro, as_dummy, shape, input, item, parsed, pc,
                   dummy, emitter, nextId, dummyOps, calls, ret, output,
                   converted, collection, message, ranged, manyhow, sites,
                   early, chained>>

\* emitter.clear()
Emitter_clear_call ==
    /\ Len(held.ops) < MaxHeldCalls
    /\ held' = [held EXCEPT
                  !.em = Emitter_clear(@),
                  !.ops = Append(@, HeldOp("clear", <<>>, "unit"))]
    /\ UNCHANGED <<kind, macro, as_dummy, shape, input, item, parsed, pc,
                   dummy, emitter, nextId, dummyOps, calls, ret, output,
                   converted, collection, message, ranged, manyhow, sites,
                   early, chained>>

\* emitter.is_empty()
Emitter_is_empty_call ==
    /\ Len(held.ops) < MaxHeldCalls
    /\ held' = [held EXCEPT
                  !.ops = Append(@, HeldOp("is_empty", <<>>,
                                           Emitter_is_empty(held.em)))]
    /\ UNCHANGED <<kind, macro, as_dummy, shape, input, item, parsed, pc,
                   dummy, emitter, nextId, dummyOps, calls, ret, output,
                   converted, collection, message, ranged, manyhow, sites,
                   early, chained>>

\* emitter.into_result()
Emitter_into_result_call ==
    /\ Len(held.ops) < MaxHeldCalls
    /\ LET r == Emitter_into_result(held.em)
       IN held' = [held EXCEPT
                     !.em = r.em,
                     !.ops = Append(@, HeldOp("into_result", <<>>,
                                              [ok |-> r.ok, err |-> r.err]))]
    /\ UNCHANGED <<kind, macro, as_dummy, shape, input, item, parsed, pc,
                   dummy, emitter, nextId, dummyOps, calls, ret, output,
                   converted, collection, message, ranged, manyhow, sites,
                   early, chained>>

NextEmitter ==
    \/ Emitter_emit_call
    \/ Emitter_extend_call
    \/ Emitter_clear_call
    \/ Emitter_is_empty_call
    \/ Emitter_into_result_call

SpecEmitter == InitEmitter /\ [][NextEmitter]_vars
\* ================================================================== claims
\* Expected renderings, written out from the claims' own words.
RenderMsg(d) == << <<"compile_error", d>>, <<"msg", d>> >>
\* the diagnostics ds (ErrorMessages) one after the other
RenderAll(ds) == Concat([i \in 1..Len(ds) |-> RenderMsg(ds[i].id)])
\* the error returned by the body
RenderErr(e) ==
    IF e.k = "msg" THEN RenderMsg(e.id)
    ELSE IF e.k = "error" THEN RenderAll(e.elems)
    ELSE <<>>
BodyReturned == pc = "done" /\ ret.tag # "none"
Succeeded == BodyReturned /\ ret.tag \in {"bare", "ok"}
Failed == BodyReturned /\ ret.tag = "err"
\* the tokens the flag asks to seed the buffer with
SeedTokens ==
    IF ~as_dummy THEN <<>>
    ELSE IF kind = "function" THEN input
    ELSE IF kind = "attribute" THEN item
    ELSE <<>>
IsDiagOf(t, ds) ==
    /\ t[1] \in {"compile_error", "msg"}
    /\ \E i \in 1..Len(ds) : ds[i].id = t[2]
IsHeld(t) == IsDiagOf(t, emitter)
IsDiagToken(t) == t[1] \in {"compile_error", "msg"}
IsSeedToken(t) == t[1] \in {"input", "item"}
IsDummyToken(t) == t[1] \in {"input", "item", "new_dummy", "more_dummy"}
NoToken(s, P(_)) == \A i \in 1..Len(s) : ~P(s[i])

\* C1: in every entry point, once the body has returned (success or failure,
\* after any emit / into_result / clear calls), the diagnostics the Emitter
\* still holds appear in the output exactly once each, in insertion order.
C1_HeldDiagnosticsOnce ==
    BodyReturned => SelectSeq(output, IsHeld) = RenderAll(emitter)

C1_Witness ==
    /\ BodyReturned /\ macro /\ ret.tag = "err" /\ ret.err.k = "error"
    /\ Len(emitter) = 2
    /\ \E i \in 1..Len(calls) : calls[i].op = "into_result" /\ ~calls[i].ok

\* C2 (as claimed): in every entry point the Emitter's diagnostics come after
\* the primary output: the rendered output on success, the fallback buffer
\* followed by the rendered error on failure.
C2_EmitterAfterPrimary ==
    BodyReturned =>
        output = (IF ret.tag = "err" THEN dummy \o RenderErr(ret.err)
                  ELSE ret.toks) \o RenderAll(emitter)

\* C3: after emit(d1); emit(d2) on an empty Emitter, into_result() is
\* Err(Error[d1, d2]); the Emitter is empty after every into_result; an
\* into_result right after an into_result is Ok(()); no diagnostic is
\* returned by two into_result calls.
C3_IntoResultDrains ==
    \A i \in 1..Len(calls) :
        calls[i].op = "into_result" =>
            /\ calls[i].after = <<>>
            /\ (i >= 3 /\ calls[i-1].op = "emit" /\ calls[i-2].op = "emit"
                  /\ calls[i-2].before = <<>>)
               => (~calls[i].ok /\ calls[i].err.k = "error"
                   /\ calls[i].err.elems = <<calls[i-2].arg, calls[i-1].arg>>)
            /\ (i >= 2 /\ calls[i-1].op = "into_result") => calls[i].ok
            /\ \A j \in 1..(i-1) :
                 (calls[j].op = "into_result" /\ ~calls[j].ok /\ ~calls[i].ok)
                 => \A a \in 1..Len(calls[i].err.elems),
                       b \in 1..Len(calls[j].err.elems) :
                         calls[i].err.elems[a] # calls[j].err.elems[b]

C3_Witness ==
    /\ Len(calls) = 4
    /\ calls[1].op = "emit" /\ calls[2].op = "emit"
    /\ calls[3].op = "into_result" /\ ~calls[3].ok
    /\ calls[4].op = "into_result" /\ calls[4].ok

\* C4: function-like invocation, flag true, the body fails with e without
\* touching the buffer or the Emitter: the output is input ++ render(e).
C4_FallbackSeeding ==
    (Failed /\ kind = "function" /\ as_dummy /\ dummyOps = 0 /\ calls = <<>>)
    => output = input \o RenderErr(ret.err)

C4_Witness ==
    /\ Failed /\ kind = "function" /\ ~macro /\ as_dummy
    /\ dummyOps = 0 /\ calls = <<>>
    /\ Len(input) = 2 /\ ret.err.k = "msg"

\* the buffer was seeded (function: input, attribute: item), the body
\* assigned new tokens to it and returned a failure
Overridden ==
    /\ Failed /\ kind \in {"function", "attribute"} /\ as_dummy
    /\ SeedTokens # <<>> /\ dummyOps > 0 /\ dummy = NewDummy

\* C5: after an override the output holds none of the seeded tokens and is
\* new_fallback_tokens ++ render(e): that is the whole output when the
\* Emitter holds nothing at the return of the body, and the output without
\* the diagnostics the Emitter still holds otherwise.
C5_FallbackOverride ==
    Overridden =>
        /\ NoToken(output, IsSeedToken)
        /\ SelectSeq(output, LAMBDA t : ~IsHeld(t))
             = NewDummy \o RenderErr(ret.err)
        /\ emitter = <<>> => output = NewDummy \o RenderErr(ret.err)

C5_Witness ==
    /\ Overridden /\ kind = "attribute" /\ emitter = <<>>
    /\ ret.err.k = "msg" /\ Len(item) = 2

\* C6: when the body returns success the fallback buffer contributes no
\* tokens, whether seeded, appended to or overwritten: apart from the
\* Emitter's diagnostics the output is the rendered output alone.
C6_SuccessIgnoresFallback ==
    Succeeded =>
        /\ NoToken(output, IsDummyToken)
        /\ SelectSeq(output, LAMBDA t : ~IsDiagToken(t)) = ret.toks

C6_Witness ==
    /\ Succeeded /\ macro /\ as_dummy /\ kind = "attribute"
    /\ Len(item) = 2 /\ dummyOps > 0 /\ dummy # <<>>

\* the first required input whose conversion failed
ParseFailed == ~parsed.input.ok \/ ~parsed.item.ok
FirstFailure == IF ~parsed.input.ok THEN parsed.input ELSE parsed.item

\* C7: in the macro forms, when the conversion of a required input fails the
\* body is never invoked, the Emitter produces nothing and the output is the
\* fallback seed followed by that input's failure tokens.
C7_ParseFailureEndsCall ==
    ParseFailed =>
        /\ pc = "done" /\ ret = NoRet
        /\ calls = <<>> /\ emitter = <<>> /\ dummyOps = 0
        /\ output = SeedTokens \o FirstFailure.tokens

C7_Witness ==
    /\ ParseFailed /\ kind = "attribute" /\ as_dummy /\ Len(item) = 2
    /\ parsed.input.ok /\ ~parsed.item.ok

HasNote(s) == \E i \in 1..Len(s) : s[i][1] \in {"compile_error_context", "msg_context"}
\* the failure tokens end with the note, which stands there once
EndsWithNote(s) ==
    /\ Len(s) >= 2
    /\ s[Len(s) - 1] = <<"compile_error_context", 0>>
    /\ s[Len(s)] = <<"msg_context", 0>>
    /\ ~HasNote(SubSeq(s, 1, Len(s) - 2))

\* C8: "while parsing attribute argument" is appended to a parse failure if
\* and only if the failed input is the attribute argument of attribute! and
\* its tokens were empty; never for non-empty arguments, the item, function!
\* or derive!.
C8_ContextNoteOnlyEmptyAttribute ==
    /\ HasNote(parsed.input.tokens)
       <=> (kind = "attribute" /\ macro /\ ~parsed.input.ok /\ input = <<>>)
    /\ HasNote(parsed.input.tokens) => EndsWithNote(parsed.input.tokens)
    /\ ~HasNote(parsed.item.tokens)
    /\ HasNote(output)
       <=> (kind = "attribute" /\ macro /\ ~parsed.input.ok /\ input = <<>>)

C8_Witness ==
    /\ kind = "attribute" /\ macro /\ ~parsed.input.ok /\ input = <<>>
    /\ HasNote(output) /\ pc = "done"

\* C9: a body returning Err(SilentError) adds no diagnostic tokens; with an
\* untouched buffer and an empty Emitter the output is the input (function)
\* or the item (attribute) when the flag is true, and empty when the flag is
\* false or the entry point is derive.
C9_SilentFailure ==
    (Failed /\ ret.err = SilentError) =>
        /\ SelectSeq(output, IsDiagToken) = RenderAll(emitter)
        /\ (dummyOps = 0 /\ emitter = <<>>) =>
              output = (IF kind = "function" /\ as_dummy THEN input
                        ELSE IF kind = "attribute" /\ as_dummy THEN item
                        ELSE <<>>)

C9_Witness ==
    /\ Failed /\ ret.err = SilentError /\ dummyOps = 0 /\ emitter = <<>>
    /\ kind = "function" /\ as_dummy /\ Len(input) = 2 /\ output = input

\* the body emitted m1..mn and returned the Err of emitter.into_result()
CheckAndBail ==
    /\ Failed /\ Len(calls) >= 2
    /\ \A i \in 1..(Len(calls) - 1) : calls[i].op = "emit"
    /\ calls[Len(calls)].op = "into_result"
    /\ ret.err = calls[Len(calls)].err
Emitted == [i \in 1..(Len(calls) - 1) |-> calls[i].arg]

\* C10: check-and-bail with the flag true and the buffer untouched: the
\* output is the seeded input followed by the rendering of m1..mn, each
\* exactly once.
C10_CheckAndBail ==
    (CheckAndBail /\ as_dummy /\ kind \in {"function", "attribute"}
       /\ dummyOps = 0)
    => output = SeedTokens \o RenderAll(Emitted)

C10_Witness ==
    /\ CheckAndBail /\ as_dummy /\ kind = "function" /\ dummyOps = 0
    /\ Len(calls) = 3 /\ Len(input) = 2

\* C12 (as claimed): whatever order the handler declares its optional
\* parameters in, dispatch accepts it and the body is entered (or, for a
\* macro form, the call ends on a failed input).
C12_EitherOrderAccepted == kind # "none" => pc \in {"body", "done"}

\* C13 (as claimed): for attribute and attribute! the untouched buffer the
\* body receives is the annotated item under one value of the flag and the
\* attribute argument under the other.
C13_SeedItemOrArgument ==
    (kind = "attribute" /\ pc = "body" /\ dummyOps = 0)
    => dummy = (IF as_dummy THEN item ELSE input)

\* C13 (amended): for attribute and attribute! the untouched buffer the body
\* receives is the annotated item when the flag is true and empty when it is
\* false; the attribute argument never seeds it.
C13_SeedItemOrEmpty ==
    (kind = "attribute" /\ pc = "body" /\ dummyOps = 0)
    => /\ dummy = (IF as_dummy THEN item ELSE <<>>)
       /\ NoToken(dummy, LAMBDA t : t[1] = "input")

C13_Witness ==
    /\ kind = "attribute" /\ pc = "body" /\ dummyOps = 0 /\ ~as_dummy
    /\ Len(input) = 2 /\ Len(item) = 2 /\ dummy = <<>>

\* the results convert can give
OkTokens(t) == [ok |-> TRUE, toks |-> t, err |-> NoError]
ErrOf(e) == [ok |-> FALSE, toks |-> <<>>, err |-> e]
Converted == converted.pc = "done"
\* the first Err met from the outside in, or the tokens inside every Ok
RECURSIVE Innermost(_)
Innermost(r) == IF r.tag = "nested" THEN Innermost(r.inner) ELSE r

\* C11: a bare token sequence t and Ok(t) normalize to Ok(t); Err(e)
\* normalizes to Err(Error::from(e)), the collection holding e; in a nested
\* result the outer result is looked at first and its success branch is
\* normalized in turn: Ok(Err(e1)) gives Err(Error::from(e1)), Ok(Ok(t))
\* gives Ok(t), and Ok(r) gives what r gives.
C11_ConvertNormalizes ==
    Converted =>
        LET a == converted.arg
            res == converted.res
        IN /\ a.tag \in {"bare", "ok"} => res = OkTokens(a.toks)
           /\ a.tag = "err" => res = ErrOf(Error(<<a.err>>))
           /\ a.tag = "nested" =>
                /\ a.inner.tag = "err" => res = ErrOf(Error(<<a.inner.err>>))
                /\ a.inner.tag = "ok" => res = OkTokens(a.inner.toks)
           /\ res = (IF Innermost(a).tag = "err"
                     THEN ErrOf(Error(<<Innermost(a).err>>))
                     ELSE OkTokens(Innermost(a).toks))

C11_Witness ==
    /\ Converted
    /\ converted.arg = Nested(Err(ErrorMessage(1)))
    /\ converted.res = ErrOf(Error(<<ErrorMessage(1)>>))

Given == Concat([i \in 1..Len(collection.ops) |-> collection.ops[i].args])

\* C14: after any sequence of push and extend calls the elements of an Error
\* are the values the calls were given, in call order, and its rendering is
\* the token form of each of them in that order with nothing in between.
C14_ErrorGrowsByAppend ==
    collection.pc = "built" =>
        /\ collection.err.elems = Given
        /\ Error_to_tokens(collection.err) = RenderAll(Given)

\* extend([d1, d2]) then push(d3) renders d1, d2, d3
C14_Witness ==
    /\ collection.pc = "built"
    /\ collection.ops = << [op |-> "from", args |-> <<>>],
                           [op |-> "extend",
                            args |-> <<ErrorMessage(1), ErrorMessage(2)>>],
                           [op |-> "push", args |-> <<ErrorMessage(3)>>] >>
    /\ Error_to_tokens(collection.err)
         = RenderMsg(1) \o RenderMsg(2) \o RenderMsg(3)

\* what the rendering claims speak of, written out from their words
Shown == message.pc = "shown"
\* m without its trailing whitespace
Trimmed(m) ==
    SubSeq(m, 1, CHOOSE k \in 0..Len(m) :
                   /\ k = 0 \/ m[k] \notin Whitespace
                   /\ \A j \in (k + 1)..Len(m) : m[j] \in Whitespace)
CountNL(s) == Cardinality({i \in 1..Len(s) : s[i] = NL})
\* the number of lines of a text: a last line needs no line break
NumLines(s) ==
    CountNL(s) + (IF s # <<>> /\ s[Len(s)] # NL THEN 1 ELSE 0)
\* the text up to its first line break
FirstLine(s) ==
    SubSeq(s, 1, CHOOSE k \in 0..Len(s) :
                   /\ \A j \in 1..k : s[j] # NL
                   /\ k = Len(s) \/ s[k + 1] = NL)
RECURSIVE LinesBefore(_, _)
\* the number of lines of the attachments in front of the i-th
LinesBefore(as, i) ==
    IF i <= 1 THEN 0
    ELSE LinesBefore(as, i - 1) + NumLines(as[i - 1].text)
\* the lines of the rendering that follow the message and the blank line
BlockLines ==
    LET t == Trimmed(message.e.msg)
    IN lines(SubSeq(message.out, Len(t) + 3, Len(message.out)))
LeadingSpaces(l) ==
    CHOOSE k \in 0..Len(l) :
        /\ \A j \in 1..k : l[j] = " "
        /\ k = Len(l) \/ l[k + 1] # " "

\* C15: the rendering starts with the message without its trailing
\* whitespace; without attachments that is all of it; otherwise a blank line
\* follows and then one block per attachment, in insertion order, whose
\* first line is two spaces, "= label: " and the first line of the
\* attachment; every line of a block ends with a line break.
C15_Rendering ==
    Shown =>
        LET e == message.e
            out == message.out
            t == Trimmed(e.msg)
            body == SubSeq(out, Len(t) + 3, Len(out))
        IN /\ SubSeq(out, 1, Len(t)) = t
           /\ e.attachments = <<>> => out = t
           /\ e.attachments # <<>> =>
                /\ SubSeq(out, Len(t) + 1, Len(t) + 2) = <<NL, NL>>
                /\ body[Len(body)] = NL
                /\ CountNL(body) = Len(BlockLines)
                /\ Len(BlockLines)
                     = LinesBefore(e.attachments, Len(e.attachments) + 1)
                /\ \A i \in 1..Len(e.attachments) :
                     BlockLines[LinesBefore(e.attachments, i) + 1]
                       = <<" ", " ", "=", " ">> \o e.attachments[i].label
                         \o <<":", " ">> \o FirstLine(e.attachments[i].text)

C15_Witness ==
    /\ Shown
    /\ message.e.msg = <<"a", " ">>
    /\ Len(message.e.attachments) = 2
    /\ message.e.attachments[1].label # message.e.attachments[2].label
    /\ message.out[1] = "a" /\ message.out[2] = NL /\ message.out[3] = NL

\* the k-th line (k > 1) of the i-th attachment as it is rendered
Continuation(i, k) == BlockLines[LinesBefore(message.e.attachments, i) + k]
Continuations ==
    {ik \in (1..Len(message.e.attachments)) \X (2..(MaxText + 1)) :
       ik[2] <= NumLines(message.e.attachments[ik[1]].text)}

\* C16 (as claimed): every continuation line of a multi-line attachment
\* starts with label length + 4 spaces.
C16_IndentUnderColon ==
    Shown =>
        \A ik \in Continuations :
            LeadingSpaces(Continuation(ik[1], ik[2]))
              = Len(message.e.attachments[ik[1]].label) + 4

\* C16 (amended): every continuation line of a multi-line attachment starts
\* with label length + 6 spaces (4, the width of the label, 2), so that it is
\* aligned with the text of the first line, and then holds the line.
C16_IndentUnderText ==
    Shown =>
        \A ik \in Continuations :
            LET label == message.e.attachments[ik[1]].label
                line == lines(message.e.attachments[ik[1]].text)[ik[2]]
            IN /\ LeadingSpaces(Continuation(ik[1], ik[2])) = Len(label) + 6
               /\ Continuation(ik[1], ik[2]) = Pad(Len(label) + 6) \o line

C16_Witness ==
    /\ Shown
    /\ Len(message.e.attachments) = 2
    /\ Len(message.e.attachments[1].label) = 7
    /\ Len(message.e.attachments[2].label) = 4
    /\ message.e.attachments[1].text = <<"a">>
    /\ message.e.attachments[2].text = <<NL, "a">>
    /\ Continuations = {<<2, 2>>}
    /\ Continuation(2, 2) = Pad(10) \o <<"a">>

\* C19: the span range of a token sequence starts at the position of its
\* first token, or at the call site when it is empty, and ends at the
\* position of its last token, or where it starts when the sequence has no
\* or one token.
C19_SpanRange ==
    ranged.pc = "spanned" =>
        LET ts == ranged.tokens
            n == Len(ts)
        IN /\ ranged.span.start
                = (IF n = 0 THEN <<"call_site", 0>> ELSE <<"span", ts[1][2]>>)
           /\ ranged.span.end
                = (IF n <= 1 THEN ranged.span.start ELSE <<"span", ts[n][2]>>)

C19_Witness ==
    /\ ranged.pc = "spanned"
    /\ Len(ranged.tokens) = 1
    /\ ranged.span = [start |-> <<"span", 2>>, end |-> <<"span", 2>>]

\* what the claims on #[manyhow] speak of
Expanded == manyhow.pc = "expanded"
HasTag(s, tag) == \E i \in 1..Len(s) : s[i][1] = tag
HasFlag(f) == \E i \in 1..Len(manyhow.input) : manyhow.input[i] = f
\* the expansion is the item followed by compile errors only
Rejected ==
    LET itm == manyhow_item(manyhow.below, manyhow.decl)
        out == manyhow.output
    IN /\ Len(out) > Len(itm)
       /\ SubSeq(out, 1, Len(itm)) = itm
       /\ \A i \in (Len(itm) + 1)..Len(out) :
            \/ out[i][1] = "compile_error"
            \/ i > Len(itm) + 1 /\ out[i - 1][1] = "compile_error"
       /\ ~HasTag(out, "glue")
\* the expansion calls the entry point of kind k
GlueFor(k) ==
    /\ Cardinality({i \in 1..Len(manyhow.output) :
                      manyhow.output[i][1] = "glue"}) = 1
    /\ \E i \in 1..Len(manyhow.output) : manyhow.output[i] = <<"glue", k>>
    /\ ~HasTag(manyhow.output, "compile_error")
\* how often the kind is named, as a flag or as an attribute below
KindNames == {"proc_macro", "proc_macro_attribute", "proc_macro_derive"}
TimesNamed ==
    Cardinality({i \in 1..Len(manyhow.input) : manyhow.input[i] \in KindNames})
    + Cardinality({j \in 1..Len(manyhow.below) : manyhow.below[j] \in KindNames})
Named(n) == HasFlag(n) \/ \E j \in 1..Len(manyhow.below) : manyhow.below[j] = n
\* nothing but the flags is wrong with the use of the attribute: the kind is
\* named once, a group follows proc_macro_derive and nothing else, and the
\* flags are on a function or on the use statement of one
WellFormed ==
    /\ TimesNamed = 1
    /\ manyhow.decl \in {"fn", "use"}
    /\ ~HasFlag("impl_fn")
    /\ \A i \in 1..Len(manyhow.input) :
         /\ manyhow.input[i] = "(..)"
              => i > 1 /\ manyhow.input[i - 1] = "proc_macro_derive"
         /\ manyhow.input[i] = "proc_macro_derive"
              => i < Len(manyhow.input) /\ manyhow.input[i + 1] = "(..)"
\* the dummy flags given all belong to the kind named k
DummyFlagsMatch(k) ==
    /\ HasFlag("input_as_dummy") => k = "proc_macro"
    /\ HasFlag("item_as_dummy") => k = "proc_macro_attribute"

\* C20: input_as_dummy is taken only with proc_macro and item_as_dummy only
\* with proc_macro_attribute, neither with proc_macro_derive, wherever the
\* flag stands in the list and whether the kind is a flag or an attribute
\* below; every other combination and every unknown flag gives the item
\* back with a compile error and no call of an entry point.
C20_DummyFlagsMatchKind ==
    Expanded =>
        /\ Rejected \/ \E k \in {"Function", "Attribute", "Derive"} : GlueFor(k)
        /\ HasFlag("unknown_flag") => Rejected
        /\ HasFlag("input_as_dummy") => Rejected \/ GlueFor("Function")
        /\ HasFlag("item_as_dummy") => Rejected \/ GlueFor("Attribute")
        /\ HasTag(manyhow.output, "as_dummy")
             <=> /\ ~Rejected
                 /\ HasFlag("input_as_dummy") \/ HasFlag("item_as_dummy")
        /\ WellFormed =>
             /\ Named("proc_macro") =>
                  IF DummyFlagsMatch("proc_macro") /\ ~HasFlag("unknown_flag")
                  THEN GlueFor("Function") ELSE Rejected
             /\ Named("proc_macro_attribute") =>
                  IF DummyFlagsMatch("proc_macro_attribute")
                     /\ ~HasFlag("unknown_flag")
                  THEN GlueFor("Attribute") ELSE Rejected
             /\ Named("proc_macro_derive") =>
                  IF DummyFlagsMatch("proc_macro_derive")
                     /\ ~HasFlag("unknown_flag")
                  THEN GlueFor("Derive") ELSE Rejected

\* the dummy flag in front of the kind, both as flags
C20_Witness ==
    /\ Expanded
    /\ manyhow.input = <<"input_as_dummy", "proc_macro">>
    /\ manyhow.below = <<"doc">>
    /\ manyhow.decl = "fn"
    /\ GlueFor("Function") /\ HasTag(manyhow.output, "as_dummy")

\* what site i returns when it is the only invocation: the output of the
\* body or, on failure, the seeded input and the rendered error, and the
\* diagnostics the body emitted (in a macro form these come first)
SiteAlone(i) ==
    LET s == sites[i]
        emitted == [k \in 1..Len(SelectSeq(s.emitter, LAMBDA d : d.id[1] = i))
                      |-> ErrorMessage(<<i, k>>)]
        seed == IF s.as_dummy THEN s.input ELSE <<>>
    IN IF s.ret.tag = "bare"
       THEN IF s.macro THEN RenderAll(emitted) \o SiteOutput(i)
            ELSE SiteOutput(i) \o RenderAll(emitted)
       ELSE IF s.macro THEN seed \o RenderAll(emitted) \o RenderErr(s.ret.err)
            ELSE seed \o RenderErr(s.ret.err) \o RenderAll(emitted)

\* C17: however the steps of two invocations interleave, the output of each
\* is the output it gives when run alone, and it holds no token and no
\* diagnostic of the other invocation.
C17_SitesIndependent ==
    \A i \in Sites :
        sites # Unused /\ sites[i].pc = "done" =>
            /\ sites[i].output = SiteAlone(i)
            /\ \A k \in 1..Len(sites[i].output) : sites[i].output[k][2][1] = i

\* both sites emitted and returned, the second was called after the first
\* had emitted
C17_Witness ==
    /\ sites # Unused
    /\ \A i \in Sites : sites[i].pc = "done" /\ Len(sites[i].emitter) = 1
    /\ sites[1].ret.tag = "err" /\ sites[1].as_dummy /\ Len(sites[1].input) = 2
    /\ sites[2].ret.tag = "bare" /\ sites[2].macro

\* the ErrorMessage the arguments describe, written out
Described(args) ==
    IF args.form = "fmt"
    THEN [msg |-> args.msg,
          attachments |-> [i \in 1..Len(args.atts) |-> args.atts[i]]]
    ELSE args.e

C22_ContextJoin ==
    chained # Unused /\ chained.op # "none" =>
        LET b == chained.before
            c == chained.added
            pair == [k |-> "error", id |-> 0, elems |-> <<b.err, c>>]
        IN /\ chained.op \in {"context", "context_with"} /\ b.tag = "ok" =>
                 chained.cur = b /\ ~chained.ran
           /\ chained.op \in {"context", "context_with"} /\ b.tag = "err" =>
                 /\ chained.cur.tag = "err" /\ chained.cur.err = pair
                 /\ chained.cur.toks = <<>>
           /\ chained.op = "join" =>
                 chained.cur.tag = "value" /\ chained.cur.err = pair
           /\ b.tag # "ok" =>
                 to_tokens(chained.cur.err) = to_tokens(b.err) \o to_tokens(c)

\* a context on an Err that already carries a context, and a join of an
\* Error of two messages with a third
C22_Witness ==
    /\ chained # Unused
    /\ chained.n = 2
    /\ chained.op = "context_with" /\ chained.before.tag = "err"
    /\ chained.before.err.k = "error"
    /\ chained.added = ErrorMessage(3)
    /\ Len(to_tokens(chained.cur.err)) >= 6

\* whether call i of the history emptied the Emitter: a clear, or an
\* into_result that returned Err
Resets(ops, i) ==
    \/ ops[i].op = "clear"
    \/ ops[i].op = "into_result" /\ ~ops[i].res.ok

\* the diagnostics handed to emit / extend in the first n calls after the
\* last call among them that emptied the Emitter, in the order handed over
SinceReset(ops, n) ==
    LET resets == {i \in 1..n : Resets(ops, i)}
        last == IF resets = {} THEN 0
                ELSE CHOOSE i \in resets : \A j \in resets : j <= i
    IN Concat([k \in 1..(n - last) |-> ops[last + k].args])

\* C23: after any sequence of calls the Emitter holds the diagnostics
\* emitted or extended since the last clear or failed into_result, in
\* order; is_empty tells whether there are none; into_result on an empty
\* Emitter is Ok(()) and leaves it unchanged.
C23_EmitterState ==
    held # Unused =>
        /\ held.em = SinceReset(held.ops, Len(held.ops))
        /\ \A i \in 1..Len(held.ops) :
             LET before == SinceReset(held.ops, i - 1)
                 o == held.ops[i]
             IN /\ o.op = "is_empty" => (o.res <=> before = <<>>)
                /\ o.op = "into_result" /\ before = <<>> =>
                      o.res.ok /\ SinceReset(held.ops, i) = before
                /\ o.op = "into_result" /\ before # <<>> =>
                      ~o.res.ok /\ o.res.err.elems = before

\* emit, a failed into_result, an extend by two and an is_empty
C23_Witness ==
    /\ held # Unused
    /\ Len(held.ops) = 4
    /\ held.ops[1].op = "emit"
    /\ held.ops[2].op = "into_result"
    /\ held.ops[3].op = "extend" /\ Len(held.ops[3].args) = 2
    /\ held.ops[4].op = "is_empty"
    /\ Len(held.em) = 2

\* C24: a handler that does not declare the fallback buffer leaves the
\* buffer as it was seeded; for a handler that does not declare the Emitter
\* the Emitter is empty after the call and adds no tokens to the output.
C24_OnlyDeclaredSupplied ==
    BodyReturned =>
        /\ ~Declares(shape.extra, "Dummy") => dummy = SeedTokens /\ dummyOps = 0
        /\ ~Declares(shape.extra, "Emitter") =>
              /\ emitter = <<>> /\ calls = <<>>
              /\ output = IF ret.tag = "err" THEN dummy \o RenderErr(ret.err)
                          ELSE ret.toks

\* a handler with no optional parameter failed in attribute! with the item
\* as seed
C24_Witness ==
    /\ Failed /\ kind = "attribute" /\ macro /\ as_dummy /\ Len(item) = 2
    /\ shape.extra = <<>> /\ ret.err.k = "msg"
    /\ output = item \o RenderMsg(ret.err.id)

\* C25: the buffer the body receives, before the body writes to it: in
\* function / function! the input when the flag is set and empty otherwise;
\* in attribute / attribute! the item when the flag is set and empty
\* otherwise, never the attribute argument; in derive / derive! empty.
C25_InitialBuffer ==
    (pc = "body" /\ dummyOps = 0) =>
        /\ kind = "function" => dummy = (IF as_dummy THEN input ELSE <<>>)
        /\ kind = "attribute" =>
              /\ dummy = (IF as_dummy THEN item ELSE <<>>)
              /\ \A i \in 1..Len(dummy) : dummy[i][1] # "input"
        /\ kind = "derive" => dummy = <<>>

\* function! with #[as_dummy] on an input of two tokens, at the call of the
\* body
C25_Witness ==
    /\ pc = "body" /\ dummyOps = 0 /\ kind = "function" /\ macro /\ as_dummy
    /\ Len(input) = 2 /\ dummy = input

\* the failure tokens of the item: the syn error of the second input
IsItemFailure(t) == t[1] \in {"syn_compile_error", "syn_msg"} /\ t[2] = 2

\* C26: attribute! checks the attribute argument before the item and stops
\* at the first failure: when both fail the output is the seed followed by
\* the failure tokens of the attribute argument alone; the item's failure
\* tokens are in the output only when the attribute argument converted.
C26_FirstFailureOnly ==
    (kind = "attribute" /\ macro /\ pc = "done") =>
        /\ ~parsed.input.ok /\ ~parsed.item.ok =>
              /\ ret = NoRet
              /\ output = SeedTokens \o parsed.input.tokens
              /\ NoToken(output, IsItemFailure)
        /\ ~NoToken(output, IsItemFailure) =>
              /\ parsed.input.ok /\ ~parsed.item.ok
              /\ output = SeedTokens \o parsed.item.tokens

\* both inputs of attribute! failed to parse, the item seeded the buffer
C26_Witness ==
    /\ kind = "attribute" /\ macro /\ pc = "done" /\ as_dummy
    /\ ~parsed.input.ok /\ ~parsed.item.ok
    /\ Len(item) = 2 /\ Len(input) = 1
    /\ Len(output) = 4

\* what the function form and the macro form of the entry point return for
\* the buffer, the return value and the Emitter the body left behind
FunctionFormOutput ==
    IF kind = "function" THEN function_output(dummy, ret, emitter)
    ELSE IF kind = "attribute" THEN attribute_output(dummy, ret, emitter)
    ELSE derive_output(dummy, ret, emitter)
MacroFormOutput == macro_handler_output(dummy, ret, emitter)

\* C27 (as claimed): for the same inputs, flag and body the function form
\* and the macro form of an entry point return the same token sequence.
C27_FormsAgree ==
    BodyReturned => FunctionFormOutput = MacroFormOutput

\* C28 (as claimed): writing an ErrorMessage never panics, whatever its
\* message and its attachments, an attachment with an empty text included.
C28_RenderingNeverPanics ==
    message # Unused => message.pc # "panicked"

\* the places a kind is named at, in the order manyhow() reads them: the
\* attributes below first, then the flags
KindPlaces ==
    SelectSeq([j \in 1..Len(manyhow.below) |-> <<"below", j>>],
              LAMBDA p : manyhow.below[p[2]] \in KindNames)
    \o SelectSeq([i \in 1..Len(manyhow.input) |-> <<"flag", i>>],
                 LAMBDA p : manyhow.input[p[2]] \in KindNames)
\* the flag list is a list of identifiers up to flag n, a group stands only
\* behind proc_macro_derive and one stands there
FlagsReadable(n) ==
    \A i \in 1..n :
        /\ manyhow.input[i] = "(..)"
             => i > 1 /\ manyhow.input[i - 1] = "proc_macro_derive"
        /\ manyhow.input[i] = "proc_macro_derive"
             => i < Len(manyhow.input) /\ manyhow.input[i + 1] = "(..)"
\* the name of the kind written at place p
KindAt(p) ==
    ProcMacroType(IF p[1] = "below" THEN manyhow.below[p[2]]
                  ELSE manyhow.input[p[2]])
Multiple == "proc_macro kind specified multiple times"

IsGlueToken(t) ==
    t[1] \in {"glue", "as_dummy", "fn_name", "signature", "inner_impl_fn",
              "outer_impl_fn"}
\* the one kind named, "None" when none or several are
TheKind == IF Len(KindPlaces) = 1 THEN KindAt(KindPlaces[1]) ELSE "None"
\* the uses of #[manyhow] that manyhow() diagnoses
Diagnosed ==
    \/ ~FlagsReadable(Len(manyhow.input))
    \/ HasFlag("unknown_flag")
    \/ HasFlag("item_as_dummy") /\ TheKind \in {"Function", "Derive"}
    \/ HasFlag("input_as_dummy") /\ TheKind \in {"Attribute", "Derive"}
    \/ HasFlag("impl_fn") /\ manyhow.decl \in {"use", "use_group"}
    \/ manyhow.decl \in {"use_group", "struct", "fn_no_name", "fn_generics",
                         "fn_no_return_type"}

\* C30: every diagnosed rejection gives back the item, whole and unchanged,
\* followed by compile errors only; tokens of the entry-point glue and
\* compile errors never stand in the same expansion.
C30_RejectionKeepsItem ==
    Expanded =>
        LET itm == manyhow_item(manyhow.below, manyhow.decl)
            out == manyhow.output
        IN /\ Diagnosed => Rejected
           /\ HasTag(out, "compile_error") =>
                /\ Rejected
                /\ SubSeq(out, 1, Len(itm)) = itm
                /\ (Len(out) - Len(itm)) % 2 = 0
                /\ \A i \in 1..Len(out) : ~IsGlueToken(out[i])
                /\ \A i \in 1..((Len(out) - Len(itm)) \div 2) :
                     /\ out[Len(itm) + 2 * i - 1][1] = "compile_error"
                     /\ out[Len(itm) + 2 * i][2] = out[Len(itm) + 2 * i - 1][2]

\* a function with generics under two attributes, rejected after the flags
\* were read and checked
C30_Witness ==
    /\ Expanded
    /\ manyhow.below = <<"doc", "proc_macro_attribute">>
    /\ manyhow.input = <<"item_as_dummy", "impl_fn">>
    /\ manyhow.decl = "fn_generics"
    /\ Rejected
    /\ Len(manyhow.output) = 5
====
